---- MODULE Spec2Model ----
(***************************************************************************)
(* Vantage: the request-interception pipeline (GovernanceMiddleware and    *)
(* AuditMiddleware in front of the reverse proxy) and the asynchronous     *)
(* audit subsystem (bounded channel, single Worker, store).                *)
(*                                                                         *)
(* Byte strings are sequences of one-character strings, so that substring  *)
(* search, case folding, the three redaction patterns and JSON encoding    *)
(* and decoding are computed, character by character, as the Go code does. *)
(***************************************************************************)
EXTENDS Integers, Sequences, FiniteSets, TLC

(***************************************************************************)
(* Bounds of the model.  NumReq requests pass through the pipeline; the    *)
(* audit channel holds QueueCap events (main makes it with 100 slots, the  *)
(* model scales that down and keeps NumReq > QueueCap + 1, so that it      *)
(* fills while the worker has an event in hand).                           *)
(***************************************************************************)
NumReq == 3

QueueCap == 1

Requests == 1..NumReq

(***************************************************************************)
(* Characters and strings                                                  *)
(***************************************************************************)

LowerChars ==
    <<"a", "b", "c", "d", "e", "f", "g", "h", "i", "j", "k", "l", "m", "n", "o", "p", "q", "r",
      "s", "t", "u", "v", "w", "x", "y", "z">>
UpperChars ==
    <<"A", "B", "C", "D", "E", "F", "G", "H", "I", "J", "K", "L", "M", "N", "O", "P", "Q", "R",
      "S", "T", "U", "V", "W", "X", "Y", "Z">>

Range(s) == {s[i] : i \in 1..Len(s)}

Lowers == Range(LowerChars)

Uppers == Range(UpperChars)

Digits == {"0", "1", "2", "3", "4", "5", "6", "7", "8", "9"}

Letters == Lowers \cup Uppers

HexDigits == Digits \cup {"a", "b", "c", "d", "e", "f", "A", "B", "C", "D", "E", "F"}

\* \s of Go's regexp (RE2): [\t\n\f\r ]
Spaces == {"\t", "\n", "\f", "\r", " "}

\* strings.ToLower on one ASCII character
ToLowerChar(c) ==
    IF c \in Uppers THEN LowerChars[CHOOSE i \in 1..26 : UpperChars[i] = c] ELSE c

\* strings.ToLower
ToLower(s) == [i \in 1..Len(s) |-> ToLowerChar(s[i])]

\* Faulty variant of Contains: the empty string occurs nowhere.
ContainsNonEmpty(s, substr) ==
    /\ substr # <<>>
    /\ \E i \in 0..(Len(s) - Len(substr)) : SubSeq(s, i + 1, i + Len(substr)) = substr

\* strings.Contains: substr occurs in s at some offset (the empty string always does)
Contains(s, substr) ==
    \E i \in 0..(Len(s) - Len(substr)) : SubSeq(s, i + 1, i + Len(substr)) = substr

Max(a, b) == IF a >= b THEN a ELSE b

Min(a, b) == IF a <= b THEN a ELSE b

(***************************************************************************)
(* Go regexp: leftmost-first matching (greedy operators prefer more, and   *)
(* the first alternative in priority order that lets the whole pattern     *)
(* match wins).  A pattern is a tree of                                    *)
(*   [t |-> "cls", s |-> set of characters]       one character of a class *)
(*   [t |-> "seq", xs |-> sequence of patterns]   concatenation            *)
(*   [t |-> "opt", a |-> pattern]                 a?                       *)
(*   [t |-> "rep", a |-> pattern, min, max]       a{min,max}; max -1: no   *)
(*                                                upper limit              *)
(* Ends(re, s, i) lists, in priority order, the positions just after each  *)
(* way re can match s starting at position i.                              *)
(***************************************************************************)
Cls(S) == [t |-> "cls", s |-> S]

Cat(xs) == [t |-> "seq", xs |-> xs]

Opt(a) == [t |-> "opt", a |-> a]

Rep(a, min, max) == [t |-> "rep", a |-> a, min |-> min, max |-> max]

RECURSIVE Ends(_, _, _), EndsAll(_, _, _)
Ends(re, s, i) ==
    CASE re.t = "cls" -> IF i <= Len(s) /\ s[i] \in re.s THEN <<i + 1>> ELSE <<>>
      [] re.t = "seq" ->
            IF re.xs = <<>> THEN <<i>>
            ELSE EndsAll(Cat(Tail(re.xs)), s, Ends(Head(re.xs), s, i))
      [] re.t = "opt" -> Ends(re.a, s, i) \o <<i>>
      [] re.t = "rep" /\ re.a.t = "cls" ->
            \* a class repeated: the longest run first, then one character less, ...
            LET most == IF re.max = -1 THEN Len(s) - i + 1 ELSE Min(re.max, Len(s) - i + 1)
                run == CHOOSE k \in 0..Max(most, 0) :
                          /\ \A j \in i..(i + k - 1) : s[j] \in re.a.s
                          /\ k = Max(most, 0) \/ s[i + k] \notin re.a.s
            IN IF run < re.min THEN <<>>
               ELSE [n \in 1..(run - re.min + 1) |-> i + run - n + 1]
      [] re.t = "rep" /\ re.a.t # "cls" ->
            (IF re.max = 0 THEN <<>>
             ELSE EndsAll(Rep(re.a, Max(re.min - 1, 0),
                              IF re.max = -1 THEN -1 ELSE re.max - 1),
                          s, Ends(re.a, s, i)))
            \o (IF re.min = 0 THEN <<i>> ELSE <<>>)

\* The ends of re started at each position of starts, in the order of starts.
EndsAll(re, s, starts) ==
    IF starts = <<>> THEN <<>>
    ELSE Ends(re, s, Head(starts)) \o EndsAll(re, s, Tail(starts))

\* The leftmost match at or after position from: <<start, end>>, or <<>> when none.
FindFrom(re, s, from) ==
    LET starts == {i \in from..Len(s) : Ends(re, s, i) # <<>>}
    IN IF starts = {} THEN <<>>
       ELSE LET first == CHOOSE i \in starts : \A j \in starts : i <= j
            IN <<first, Head(Ends(re, s, first))>>

\* Regexp.ReplaceAllString: every non-overlapping match, left to right, becomes repl
\* (none of the three patterns matches the empty string, none of the markers holds a $).
RECURSIVE ReplaceFrom(_, _, _, _)
ReplaceFrom(re, s, repl, from) ==
    LET m == FindFrom(re, s, from)
    IN IF m = <<>> THEN SubSeq(s, from, Len(s))
       ELSE SubSeq(s, from, m[1] - 1) \o repl \o ReplaceFrom(re, s, repl, m[2])

\* Faulty variant of ReplaceAllString: only the leftmost match becomes repl.
ReplaceFirstString(re, s, repl) ==
    LET m == FindFrom(re, s, 1)
    IN IF m = <<>> THEN s
       ELSE SubSeq(s, 1, m[1] - 1) \o repl \o SubSeq(s, m[2], Len(s))

ReplaceAllString(re, s, repl) == ReplaceFrom(re, s, repl, 1)

\* [a-zA-Z0-9._%+-]+@[a-zA-Z0-9.-]+\.[a-zA-Z]{2,}
emailRegex ==
    Cat(<<Rep(Cls(Letters \cup Digits \cup {".", "_", "%", "+", "-"}), 1, -1),
          Cls({"@"}),
          Rep(Cls(Letters \cup Digits \cup {".", "-"}), 1, -1),
          Cls({"."}),
          Rep(Cls(Letters), 2, -1)>>)

\* (\+\d{1,2}\s?)?\(?\d{3}\)?[\s.-]?\d{3}[\s.-]?\d{4}
phoneRegex ==
    Cat(<<Opt(Cat(<<Cls({"+"}), Rep(Cls(Digits), 1, 2), Opt(Cls(Spaces))>>)),
          Opt(Cls({"("})),
          Rep(Cls(Digits), 3, 3),
          Opt(Cls({")"})),
          Opt(Cls(Spaces \cup {".", "-"})),
          Rep(Cls(Digits), 3, 3),
          Opt(Cls(Spaces \cup {".", "-"})),
          Rep(Cls(Digits), 4, 4)>>)

\* [0-9a-fA-F]{8}-[0-9a-fA-F]{4}-[0-9a-fA-F]{4}-[0-9a-fA-F]{4}-[0-9a-fA-F]{12}
uuidRegex ==
    Cat(<<Rep(Cls(HexDigits), 8, 8), Cls({"-"}),
          Rep(Cls(HexDigits), 4, 4), Cls({"-"}),
          Rep(Cls(HexDigits), 4, 4), Cls({"-"}),
          Rep(Cls(HexDigits), 4, 4), Cls({"-"}),
          Rep(Cls(HexDigits), 12, 12)>>)

RedactedEmail ==
    <<"[", "R", "E", "D", "A", "C", "T", "E", "D", "_", "E", "M", "A", "I", "L", "]">>

\* Faulty variant of RedactedPhone: a marker that itself reads like a phone number.
RedactedPhoneNumber ==
    <<"[", "0", "0", "0", "-", "0", "0", "0", "-", "0", "0", "0", "0", "]">>

RedactedPhone ==
    <<"[", "R", "E", "D", "A", "C", "T", "E", "D", "_", "P", "H", "O", "N", "E", "]">>

RedactedUUID ==
    <<"[", "R", "E", "D", "A", "C", "T", "E", "D", "_", "U", "U", "I", "D", "]">>

\* The PII redactor of GovernanceMiddleware: email, then phone, then UUID.
Redact(bodyStr) ==
    ReplaceAllString(uuidRegex,
        ReplaceAllString(phoneRegex,
            ReplaceAllString(emailRegex, bodyStr, RedactedEmail),
            RedactedPhone),
        RedactedUUID)


(***************************************************************************)
(* encoding/json                                                           *)
(*                                                                         *)
(* A decoded value is [k |-> "obj", v |-> sequence of <<key, value>>],     *)
(* [k |-> "arr", v |-> sequence of values], [k |-> "str", v |-> chars],     *)
(* [k |-> "num", v |-> Int] or [k |-> "lit", v |-> "true"/"false"/"null"].  *)
(* The texts the model draws hold no escape sequences and only             *)
(* non-negative integer numbers.                                           *)
(***************************************************************************)
AsciiLow ==
    <<" ", "!", "\"", "#", "$", "%", "&", "'", "(", ")", "*", "+", ",", "-", ".", "/", "0",
      "1", "2", "3", "4", "5", "6", "7", "8", "9", ":", ";", "<", "=", ">", "?", "@", "A", "B",
      "C", "D", "E", "F", "G", "H", "I", "J", "K", "L", "M", "N", "O", "P", "Q", "R", "S", "T",
      "U", "V", "W", "X", "Y", "Z", "[", "\\", "]", "^", "_">>

AsciiHigh ==
    <<"a", "b", "c", "d", "e", "f", "g", "h", "i", "j", "k", "l", "m", "n", "o", "p", "q", "r",
      "s", "t", "u", "v", "w", "x", "y", "z", "{", "|", "}", "~">>

\* The byte value of a character: 32..95 and 97..126 from the two tables, any other
\* (a line break, a tab) sorts below them.
CharCode(c) ==
    IF c \in Range(AsciiLow) THEN 31 + (CHOOSE i \in 1..Len(AsciiLow) : AsciiLow[i] = c)
    ELSE IF c \in Range(AsciiHigh) THEN 96 + (CHOOSE i \in 1..Len(AsciiHigh) : AsciiHigh[i] = c)
    ELSE 10

\* a < b in byte order (sort.Strings, used by the encoder on map keys)
RECURSIVE StrLess(_, _)
StrLess(a, b) ==
    IF b = <<>> THEN FALSE
    ELSE IF a = <<>> THEN TRUE
    ELSE IF Head(a) = Head(b) THEN StrLess(Tail(a), Tail(b))
    ELSE CharCode(Head(a)) < CharCode(Head(b))

\* The keys of a map[string]string, given as a set of <<key, value>> pairs, sorted.
RECURSIVE SortedPairs(_)
SortedPairs(m) ==
    IF m = {} THEN <<>>
    ELSE LET least == CHOOSE p \in m : \A q \in m : q = p \/ StrLess(p[1], q[1])
         IN <<least>> \o SortedPairs(m \ {least})

Quote(str) == <<"\"">> \o str \o <<"\"">>

RECURSIVE EncodeMembers(_)
EncodeMembers(ps) ==
    IF ps = <<>> THEN <<>>
    ELSE Quote(Head(ps)[1]) \o <<":">> \o Quote(Head(ps)[2])
         \o (IF Len(ps) > 1 THEN <<",">> ELSE <<>>) \o EncodeMembers(Tail(ps))

\* json.NewEncoder(w).Encode(map[string]string): keys sorted, one trailing newline
EncodeStringMap(m) == <<"{">> \o EncodeMembers(SortedPairs(m)) \o <<"}", "\n">>

JsonSpaces == {" ", "\t", "\r", "\n"}

RECURSIVE SkipSpace(_, _)
SkipSpace(s, i) == IF i <= Len(s) /\ s[i] \in JsonSpaces THEN SkipSpace(s, i + 1) ELSE i

Fail == [ok |-> FALSE]

\* The position of the quote closing a string whose first character is at i; 0 if none.
RECURSIVE StringEnd(_, _)
StringEnd(s, i) ==
    IF i > Len(s) \/ s[i] = "\\" \/ s[i] = "\n" THEN 0
    ELSE IF s[i] = "\"" THEN i
    ELSE StringEnd(s, i + 1)

RECURSIVE DigitsEnd(_, _)
DigitsEnd(s, i) == IF i <= Len(s) /\ s[i] \in Digits THEN DigitsEnd(s, i + 1) ELSE i

DigitValue(c) == CharCode(c) - 48

RECURSIVE Decimal(_)
Decimal(ds) == IF ds = <<>> THEN 0 ELSE 10 * Decimal(SubSeq(ds, 1, Len(ds) - 1)) + DigitValue(ds[Len(ds)])

IsAt(s, i, word) == i + Len(word) - 1 <= Len(s) /\ SubSeq(s, i, i + Len(word) - 1) = word

RECURSIVE ParseValue(_, _), ParseMembers(_, _, _), ParseElements(_, _, _)
RECURSIVE MembersAfter(_, _, _, _), ElementsAfter(_, _, _)
\* One JSON value starting at position i (after optional white space).
ParseValue(s, i0) ==
    LET i == SkipSpace(s, i0)
    IN IF i > Len(s) THEN Fail
       ELSE IF s[i] = "{" THEN
            LET j == SkipSpace(s, i + 1)
            IN IF j <= Len(s) /\ s[j] = "}"
               THEN [ok |-> TRUE, v |-> [k |-> "obj", v |-> <<>>], n |-> j + 1]
               ELSE ParseMembers(s, j, <<>>)
       ELSE IF s[i] = "[" THEN
            LET j == SkipSpace(s, i + 1)
            IN IF j <= Len(s) /\ s[j] = "]"
               THEN [ok |-> TRUE, v |-> [k |-> "arr", v |-> <<>>], n |-> j + 1]
               ELSE ParseElements(s, j, <<>>)
       ELSE IF s[i] = "\"" THEN
            LET e == StringEnd(s, i + 1)
            IN IF e = 0 THEN Fail
               ELSE [ok |-> TRUE, v |-> [k |-> "str", v |-> SubSeq(s, i + 1, e - 1)], n |-> e + 1]
       ELSE IF s[i] \in Digits THEN
            LET e == DigitsEnd(s, i)
            IN IF s[i] = "0" /\ e > i + 1 THEN Fail
               ELSE [ok |-> TRUE, v |-> [k |-> "num", v |-> Decimal(SubSeq(s, i, e - 1))], n |-> e]
       ELSE IF IsAt(s, i, <<"t", "r", "u", "e">>)
            THEN [ok |-> TRUE, v |-> [k |-> "lit", v |-> "true"], n |-> i + 4]
       ELSE IF IsAt(s, i, <<"f", "a", "l", "s", "e">>)
            THEN [ok |-> TRUE, v |-> [k |-> "lit", v |-> "false"], n |-> i + 5]
       ELSE IF IsAt(s, i, <<"n", "u", "l", "l">>)
            THEN [ok |-> TRUE, v |-> [k |-> "lit", v |-> "null"], n |-> i + 4]
       ELSE Fail

\* The members of an object from position i on ("key":value , ... }), acc those so far.
\* The member's value is parsed once and handed on as val.
ParseMembers(s, i, acc) ==
    IF i > Len(s) \/ s[i] # "\"" THEN Fail
    ELSE LET e == StringEnd(s, i + 1)
             c == SkipSpace(s, e + 1)
         IN IF e = 0 \/ c > Len(s) \/ s[c] # ":" THEN Fail
            ELSE CHOOSE out \in {MembersAfter(s, SubSeq(s, i + 1, e - 1), val, acc) :
                                    val \in {ParseValue(s, c + 1)}} : TRUE

\* What follows the value val of the member named key: the end of the object or a comma.
MembersAfter(s, key, val, acc) ==
    IF ~val.ok THEN Fail
    ELSE LET d == SkipSpace(s, val.n)
             members == Append(acc, <<key, val.v>>)
         IN IF d > Len(s) THEN Fail
            ELSE IF s[d] = "}"
                 THEN [ok |-> TRUE, v |-> [k |-> "obj", v |-> members], n |-> d + 1]
            ELSE IF s[d] = ","
                 THEN ParseMembers(s, SkipSpace(s, d + 1), members)
            ELSE Fail

\* The elements of an array from position i on (value , ... ]), acc those so far.
ParseElements(s, i, acc) ==
    CHOOSE out \in {ElementsAfter(s, val, acc) : val \in {ParseValue(s, i)}} : TRUE

\* What follows the element val: the end of the array or a comma.
ElementsAfter(s, val, acc) ==
    IF ~val.ok THEN Fail
    ELSE LET d == SkipSpace(s, val.n)
             elements == Append(acc, val.v)
         IN IF d > Len(s) THEN Fail
            ELSE IF s[d] = "]"
                 THEN [ok |-> TRUE, v |-> [k |-> "arr", v |-> elements], n |-> d + 1]
            ELSE IF s[d] = "," THEN ParseElements(s, d + 1, elements)
            ELSE Fail

\* json.Unmarshal of a whole text: one value, then nothing but white space.
Unmarshal(data) ==
    CHOOSE out \in {IF val.ok /\ SkipSpace(data, val.n) > Len(data) THEN val ELSE Fail :
                       val \in {ParseValue(data, 1)}} : TRUE

\* m[key].(map[string]interface{}) and friends: the member of object obj under exactly
\* this key, the last one if the text repeats the key; [k |-> "none"] if there is none.
Member(obj, key) ==
    LET hits == {i \in 1..Len(obj.v) : obj.v[i][1] = key}
    IN IF hits = {} THEN [k |-> "none"]
       ELSE obj.v[CHOOSE i \in hits : \A j \in hits : j <= i][2]

(***************************************************************************)
(* Values the model draws                                                  *)
(***************************************************************************)
KwInternalDb ==
    <<"i", "n", "t", "e", "r", "n", "a", "l", "_", "d", "b">>

KwSecretKey ==
    <<"s", "e", "c", "r", "e", "t", "_", "k", "e", "y">>

BodyKeyword ==
    <<"{", "\"", "m", "e", "s", "s", "a", "g", "e", "\"", ":", "\"", "m", "y", " ", "S", "e",
      "c", "r", "e", "t", "_", "K", "e", "y", "\"", "}">>

BodyEmail ==
    <<"{", "\"", "m", "e", "s", "s", "a", "g", "e", "\"", ":", "\"", "m", "a", "i", "l", " ",
      "a", "@", "b", ".", "c", "o", "\"", "}">>

PathChat ==
    <<"/", "v", "1", "/", "c", "h", "a", "t">>

ChatMarker ==
    <<"/", "c", "h", "a", "t">>

ReplyBilled ==
    <<"{", "\"", "m", "e", "t", "a", "\"", ":", "{", "\"", "b", "i", "l", "l", "e", "d", "_",
      "u", "n", "i", "t", "s", "\"", ":", "{", "\"", "i", "n", "p", "u", "t", "_", "t", "o",
      "k", "e", "n", "s", "\"", ":", "1", "0", ",", "\"", "o", "u", "t", "p", "u", "t", "_",
      "t", "o", "k", "e", "n", "s", "\"", ":", "5", "}", "}", "}">>

KeyError ==
    <<"e", "r", "r", "o", "r">>

KeyCode ==
    <<"c", "o", "d", "e">>

KeyMessage ==
    <<"m", "e", "s", "s", "a", "g", "e">>

KeyMeta ==
    <<"m", "e", "t", "a">>

KeyBilledUnits ==
    <<"b", "i", "l", "l", "e", "d", "_", "u", "n", "i", "t", "s">>

KeyTokens ==
    <<"t", "o", "k", "e", "n", "s">>

KeyInputTokens ==
    <<"i", "n", "p", "u", "t", "_", "t", "o", "k", "e", "n", "s">>

KeyOutputTokens ==
    <<"o", "u", "t", "p", "u", "t", "_", "t", "o", "k", "e", "n", "s">>

SecurityPolicyViolation ==
    <<"S", "e", "c", "u", "r", "i", "t", "y", " ", "P", "o", "l", "i", "c", "y", " ", "V", "i",
      "o", "l", "a", "t", "i", "o", "n">>

ForbiddenContent ==
    <<"F", "O", "R", "B", "I", "D", "D", "E", "N", "_", "C", "O", "N", "T", "E", "N", "T">>

\* cfg.ForbiddenKeywords as config.yaml gives it (two of the README's four keywords)
KeywordConfigs == {<<KwInternalDb, KwSecretKey>>}

\* the second argument of GovernanceMiddleware in setupRoutes
RedactionEnabled == TRUE

\* The requests that arrive: a prompt with a forbidden keyword, a prompt with an e-mail
\* address, and the keyword prompt again under another method.
\* (xUserID is what r.Header.Get("X-User-ID") gives: "" when the header is absent.)
Inputs ==
    {[method |-> "POST", path |-> PathChat, xUserID |-> "", body |-> BodyKeyword],
     [method |-> "POST", path |-> PathChat, xUserID |-> "", body |-> BodyEmail],
     [method |-> "PUT", path |-> PathChat, xUserID |-> "", body |-> BodyKeyword]}

StatusOK == 200

StatusForbidden == 403

\* What the reverse proxy relays: the provider's answer.
UpstreamReplies == {[status |-> StatusOK, body |-> ReplyBilled]}

\* What the classify call comes back with: err is client.Do's error; decodeErr is the
\* error of Decode(&result); classifications is result.Classifications, each with its
\* Labels (label to confidence, in hundredths) and its Prediction.
ClassifyFailed == [err |-> TRUE, decodeErr |-> FALSE, classifications |-> <<>>]

ClassifiedSafe97 ==
    [err |-> FALSE, decodeErr |-> FALSE,
     classifications |-> <<[labels |-> [safe |-> 97, unsafe |-> 3], prediction |-> "safe"]>>]

ClassifierReplies == {ClassifyFailed, ClassifiedSafe97}

(***************************************************************************)
(* A second environment: one client, and a wider choice of what it sends   *)
(* and of what the provider and the classifier answer.                     *)
(***************************************************************************)
\* a prompt with two e-mail addresses, a phone number and a UUID
BodyPII ==
    <<"{", "\"", "m", "e", "s", "s", "a", "g", "e", "\"", ":", "\"", "a", "@", "b", ".", "c",
      "o", " ", "c", "@", "d", ".", "i", "o", " ", "5", "5", "5", "-", "1", "2", "3", "-", "4",
      "5", "6", "7", " ", "a", "a", "a", "a", "a", "a", "a", "a", "-", "b", "b", "b", "b", "-",
      "c", "c", "c", "c", "-", "d", "d", "d", "d", "-", "e", "e", "e", "e", "e", "e", "e", "e",
      "e", "e", "e", "e", "\"", "}">>

\* a prompt with a UUID made of decimal digits only
BodyDigitUUID ==
    <<"{", "\"", "m", "e", "s", "s", "a", "g", "e", "\"", ":", "\"", "i", "d", " ", "1", "2",
      "3", "4", "5", "6", "7", "8", "-", "1", "2", "3", "4", "-", "1", "2", "3", "4", "-", "1",
      "2", "3", "4", "-", "1", "2", "3", "4", "5", "6", "7", "8", "9", "0", "1", "2", "\"", "}">>

\* a harmless prompt
BodyJoke ==
    <<"{", "\"", "m", "e", "s", "s", "a", "g", "e", "\"", ":", "\"", "T", "e", "l", "l", " ",
      "m", "e", " ", "a", " ", "j", "o", "k", "e", "\"", "}">>

\* a body that is no JSON
BodyNotJSON ==
    <<"T", "e", "l", "l", " ", "m", "e", " ", "a", " ", "j", "o", "k", "e">>

\* a JSON body without a message member
BodyNoMessage ==
    <<"{", "\"", "p", "r", "o", "m", "p", "t", "\"", ":", "\"", "h", "i", "\"", "}">>

\* a JSON body whose message is empty
BodyEmptyMessage ==
    <<"{", "\"", "m", "e", "s", "s", "a", "g", "e", "\"", ":", "\"", "\"", "}">>

\* a JSON body whose message is no string
BodyNumberMessage ==
    <<"{", "\"", "m", "e", "s", "s", "a", "g", "e", "\"", ":", "7", "}">>

\* a path of the pipeline that is no chat endpoint
PathEmbed ==
    <<"/", "v", "1", "/", "e", "m", "b", "e", "d">>

\* the provider's answer with the other token shape
ReplyTokens ==
    <<"{", "\"", "m", "e", "t", "a", "\"", ":", "{", "\"", "t", "o", "k", "e", "n", "s", "\"",
      ":", "{", "\"", "i", "n", "p", "u", "t", "_", "t", "o", "k", "e", "n", "s", "\"", ":",
      "7", ",", "\"", "o", "u", "t", "p", "u", "t", "_", "t", "o", "k", "e", "n", "s", "\"",
      ":", "3", "}", "}", "}">>

\* the provider's answer with both token shapes
ReplyBoth ==
    <<"{", "\"", "m", "e", "t", "a", "\"", ":", "{", "\"", "b", "i", "l", "l", "e", "d", "_",
      "u", "n", "i", "t", "s", "\"", ":", "{", "\"", "i", "n", "p", "u", "t", "_", "t", "o",
      "k", "e", "n", "s", "\"", ":", "1", "0", ",", "\"", "o", "u", "t", "p", "u", "t", "_",
      "t", "o", "k", "e", "n", "s", "\"", ":", "5", "}", ",", "\"", "t", "o", "k", "e", "n",
      "s", "\"", ":", "{", "\"", "i", "n", "p", "u", "t", "_", "t", "o", "k", "e", "n", "s",
      "\"", ":", "7", ",", "\"", "o", "u", "t", "p", "u", "t", "_", "t", "o", "k", "e", "n",
      "s", "\"", ":", "3", "}", "}", "}">>

\* answers from which no token count can be read
ReplyNotJSON ==
    <<"u", "p", "s", "t", "r", "e", "a", "m", " ", "e", "r", "r", "o", "r">>

ReplyArray ==
    <<"[", "1", "0", ",", "5", "]">>

ReplyNoMeta ==
    <<"{", "\"", "t", "e", "x", "t", "\"", ":", "\"", "h", "i", "\"", "}">>

ReplyMetaString ==
    <<"{", "\"", "m", "e", "t", "a", "\"", ":", "\"", "n", "o", "n", "e", "\"", "}">>

ReplyStringCounts ==
    <<"{", "\"", "m", "e", "t", "a", "\"", ":", "{", "\"", "t", "o", "k", "e", "n", "s", "\"",
      ":", "{", "\"", "i", "n", "p", "u", "t", "_", "t", "o", "k", "e", "n", "s", "\"", ":",
      "\"", "7", "\"", ",", "\"", "o", "u", "t", "p", "u", "t", "_", "t", "o", "k", "e", "n",
      "s", "\"", ":", "\"", "3", "\"", "}", "}", "}">>

StatusUpstreamError == 500

\* the value of the X-User-ID header the dashboard sends
DemoUser == "demo-user-1"

\* a prompt with a forbidden keyword and an e-mail address
BodyKeywordEmail ==
    <<"{", "\"", "m", "e", "s", "s", "a", "g", "e", "\"", ":", "\"", "i", "n", "t", "e", "r",
      "n", "a", "l", "_", "d", "b", " ", "a", "@", "b", ".", "c", "o", "\"", "}">>

SurveyInputs ==
    {[method |-> "POST", path |-> PathChat, xUserID |-> "", body |-> BodyPII],
     [method |-> "POST", path |-> PathChat, xUserID |-> "", body |-> BodyDigitUUID],
     [method |-> "POST", path |-> PathChat, xUserID |-> DemoUser, body |-> BodyJoke],
     [method |-> "POST", path |-> PathChat, xUserID |-> "", body |-> BodyNotJSON],
     [method |-> "POST", path |-> PathChat, xUserID |-> "", body |-> BodyNoMessage],
     [method |-> "POST", path |-> PathChat, xUserID |-> "", body |-> BodyEmptyMessage],
     [method |-> "POST", path |-> PathChat, xUserID |-> "", body |-> BodyNumberMessage],
     [method |-> "POST", path |-> PathEmbed, xUserID |-> "", body |-> BodyJoke],
     [method |-> "POST", path |-> PathChat, xUserID |-> DemoUser, body |-> BodyKeyword],
     [method |-> "PUT", path |-> PathChat, xUserID |-> "", body |-> BodyPII],
     [method |-> "POST", path |-> PathChat, xUserID |-> "", body |-> <<>>],
     [method |-> "POST", path |-> PathChat, xUserID |-> "", body |-> BodyKeywordEmail],
     [method |-> "GET", path |-> PathChat, xUserID |-> "", body |-> <<>>]}

SurveyUpstream ==
    {[status |-> StatusOK, body |-> ReplyBilled],
     [status |-> StatusOK, body |-> ReplyTokens],
     [status |-> StatusOK, body |-> ReplyBoth],
     [status |-> StatusUpstreamError, body |-> ReplyBilled],
     [status |-> StatusOK, body |-> ReplyNotJSON],
     [status |-> StatusOK, body |-> ReplyArray],
     [status |-> StatusOK, body |-> ReplyNoMeta],
     [status |-> StatusOK, body |-> ReplyMetaString],
     [status |-> StatusOK, body |-> ReplyStringCounts]}

\* the reply cannot be decoded
ClassifyUndecodable == [err |-> FALSE, decodeErr |-> TRUE, classifications |-> <<>>]

\* a reply without classifications (an error object of the provider, for one)
ClassifiedNothing == [err |-> FALSE, decodeErr |-> FALSE, classifications |-> <<>>]

\* replies whose first classification has no "safe" label
PredictedSafe ==
    [err |-> FALSE, decodeErr |-> FALSE,
     classifications |-> <<[labels |-> [unsafe |-> 3], prediction |-> "safe"]>>]

PredictedUnsafe ==
    [err |-> FALSE, decodeErr |-> FALSE,
     classifications |-> <<[labels |-> [unsafe |-> 90], prediction |-> "unsafe"]>>]

\* a reply whose confidence is no probability: "confidence": 1.5 decodes into the
\* float64 like any other number
ClassifiedSafe150 ==
    [err |-> FALSE, decodeErr |-> FALSE,
     classifications |-> <<[labels |-> [safe |-> 150], prediction |-> "safe"]>>]

SurveyClassifier ==
    {ClassifyFailed, ClassifyUndecodable, ClassifiedNothing, ClassifiedSafe97, PredictedSafe,
     PredictedUnsafe, ClassifiedSafe150}

\* The texts that travel through the model, with what the redactor and the JSON decoder
\* make of each. These are constants, so each is worked out once, not at every step.
RequestBodies == {in.body : in \in Inputs \cup SurveyInputs}
Redactions == [b \in RequestBodies |-> Redact(b)]
JsonTexts ==
    RequestBodies \cup {reply.body : reply \in UpstreamReplies \cup SurveyUpstream}
Decoded == [data \in JsonTexts |-> Unmarshal(data)]
Decode(data) == IF data \in DOMAIN Decoded THEN Decoded[data] ELSE Unmarshal(data)

(***************************************************************************)
(* State                                                                   *)
(***************************************************************************)
VARIABLES
    env,                \* the world around the gateway: who sends what, what the provider
                        \* and the classifier answer
    forbiddenKeywords,  \* cfg.ForbiddenKeywords, read-only after load
    pc,                 \* where each request is in the pipeline
    request,            \* the *http.Request: method, path and the body still to be read
    reqBody,            \* AuditMiddleware's reqBody
    rw,                 \* AuditMiddleware's responseWriterWrapper: statusCode, body
    header,             \* the ResponseWriter's header map
    wire,               \* what has been sent to the client: header block and body bytes
    downstream,         \* the request GovernanceMiddleware hands to next: body and context values
    forwarded,          \* the bodies the reverse proxy sent to the provider, per request
    auditChan,          \* the buffered channel of Interactions
    ctxDone,            \* main's deferred cancel() has run: the worker's context is done
    wpc,                \* the worker goroutine: at its select, at a step of processInteraction, stopped
    cur,                \* the Interaction processInteraction is working on
    tokens,             \* processInteraction's tokens
    safetyScore,        \* processInteraction's safetyScore, in hundredths
    store,              \* the rows of interaction_logs, in insertion order
    httpRequestsTotal,  \* telemetry counter, by <<method, path, status>>
    httpRequestDuration, \* telemetry histogram: observations, by <<method, path>>
    tokenUsageTotal,    \* telemetry counter
    classifyCalls,      \* the calls of the classify endpoint, in order: whose event, which input
    result,             \* performSafetyAudit's err and result: what the classify call came back with
    logsReply,          \* what handleGetLogs answered last: the limit asked for, status, logs
    offered,            \* history: how many Interactions each request offered to the channel
    accepted,           \* history: the requests whose Interaction the channel took, in order
    dropped,            \* history: the requests whose Interaction found the channel full
    received,           \* history: the requests whose Interaction the worker took, in order
    fate                \* history: how processInteraction ended for each request's Interaction

vars ==
    <<env, forbiddenKeywords, pc, request, reqBody, rw, header, wire, downstream, forwarded,
      auditChan, ctxDone, wpc, cur, tokens, safetyScore, store, httpRequestsTotal,
      httpRequestDuration, tokenUsageTotal, classifyCalls, result, logsReply, offered, accepted,
      dropped, received, fate>>

reqVars == <<request, reqBody, rw, header, wire, downstream, forwarded>>

workerVars ==
    <<wpc, cur, tokens, safetyScore, store, httpRequestsTotal, httpRequestDuration,
      tokenUsageTotal, classifyCalls, result, received, fate>>

NoRequest == [method |-> "", path |-> <<>>, xUserID |-> "", body |-> <<>>]

NoWriter == [statusCode |-> 0, body |-> <<>>]

NoWire == [wroteHeader |-> FALSE, status |-> 0, header |-> {}, body |-> <<>>]

NoDownstream == [called |-> FALSE, body |-> <<>>, ctx |-> {}]

NoInteraction == [id |-> 0]

\* err and result before the classify call has returned: nil, and the zero value
NoResult == [err |-> FALSE, decodeErr |-> FALSE, classifications |-> <<>>]

\* no request for the log has been answered yet
NoReply == [limit |-> <<>>, status |-> 0, logs |-> <<>>, rows |-> 0]

\* config.LoadConfig: os.Open fails when the file is absent and there is no Config; the
\* decoder fails on a file it cannot decode, and the Config returned with the error
\* holds what was decoded up to there; otherwise the list is the file's
\* forbidden_keywords, as they are: an entry "" of the file is an empty keyword
LoadConfig(file) ==
    CASE file = "absent" -> {[err |-> TRUE, ForbiddenKeywords |-> <<>>]}
      [] file = "malformed" -> {[err |-> TRUE, ForbiddenKeywords |-> <<KwInternalDb>>]}
      [] file = "empty keyword" -> {[err |-> FALSE, ForbiddenKeywords |-> <<KwInternalDb, <<>>>>]}
      [] OTHER -> {[err |-> FALSE, ForbiddenKeywords |-> kws] : kws \in KeywordConfigs}

\* Faulty variant of DefaultKeywords: the fallback is the shipped list.
ShippedKeywords == <<KwInternalDb, KwSecretKey>>

\* main's fallback when LoadConfig fails: []string{}
DefaultKeywords == <<>>

\* 1. Load Governance Config: the lists main can end up with
ConfiguredKeywords(file) ==
    {IF cfg.err THEN DefaultKeywords ELSE cfg.ForbiddenKeywords : cfg \in LoadConfig(file)}

\* The state main leaves behind once the server listens and the worker runs.
Started ==
    /\ forbiddenKeywords \in ConfiguredKeywords(env.config)
    /\ logsReply = NoReply
    /\ pc = [r \in Requests |-> "new"]
    /\ request = [r \in Requests |-> NoRequest]
    /\ reqBody = [r \in Requests |-> <<>>]
    /\ rw = [r \in Requests |-> NoWriter]
    /\ header = [r \in Requests |-> {}]
    /\ wire = [r \in Requests |-> NoWire]
    /\ downstream = [r \in Requests |-> NoDownstream]
    /\ forwarded = [r \in Requests |-> <<>>]
    /\ auditChan = <<>>
    /\ ctxDone = FALSE
    /\ wpc = "select"
    /\ cur = NoInteraction
    /\ tokens = 0
    /\ safetyScore = 0
    /\ store = env.stored
    /\ httpRequestsTotal = <<>>
    /\ httpRequestDuration = <<>>
    /\ tokenUsageTotal = 0
    /\ classifyCalls = <<>>
    /\ result = NoResult
    /\ offered = [r \in Requests |-> 0]
    /\ accepted = <<>>
    /\ dropped = {}
    /\ received = <<>>
    /\ fate = [r \in Requests |-> "none"]

\* Every client sends one of Inputs; the provider and the classifier answer as in
\* UpstreamReplies and ClassifierReplies.
\* config.yaml loads, audit.db is new, every row is written within one second, and the
\* dashboard asks for the log, without a limit, once the traffic is on record.
Traffic ==
    [clients |-> Requests, inputs |-> Inputs, upstream |-> UpstreamReplies,
     classifier |-> ClassifierReplies, config |-> "loaded", stored |-> <<>>,
     seconds |-> {0}, limits |-> {<<>>}, pollFrom |-> NumReq]

Init == env = Traffic /\ Started

\* One client sends one of SurveyInputs; the provider and the classifier answer as in
\* SurveyUpstream and SurveyClassifier.
Survey ==
    [clients |-> {1}, inputs |-> SurveyInputs, upstream |-> SurveyUpstream,
     classifier |-> SurveyClassifier, config |-> "loaded", stored |-> <<>>,
     seconds |-> {0}, limits |-> {<<>>}, pollFrom |-> 1]

InitSurvey == env = Survey /\ Started

(***************************************************************************)
(* A third environment: the dashboard asks for the log at any time and     *)
(* with any limit, over a new audit.db and over one that holds more rows   *)
(* than the default limit; the rows are written over two seconds.          *)
(***************************************************************************)
\* the limit handleGetLogs puts in place of 0
DefaultLimit == 50

\* a row of an earlier run: two rows a second
EarlierRow(k) ==
    [id |-> 0 - k, UserID |-> "", Method |-> "POST", Path |-> PathChat,
     RequestBody |-> BodyJoke, ResponseBody |-> ReplyBilled, StatusCode |-> StatusOK,
     Tokens |-> 15, SafetyScore |-> 97, IsBlocked |-> FALSE, IsRedacted |-> FALSE,
     Timestamp |-> (k + 1) \div 2]

EarlierRows == [k \in 1..(DefaultLimit + 1) |-> EarlierRow(k)]

\* the limit of the query string: none, 0, a word, 1, 2, -1
DashboardLimits == {<<>>, <<"0">>, <<"a", "l", "l">>, <<"1">>, <<"2">>, <<"-", "1">>}

DashboardInputs ==
    {[method |-> "POST", path |-> PathChat, xUserID |-> DemoUser, body |-> BodyJoke]}

Dashboard ==
    [clients |-> {1, 2}, inputs |-> DashboardInputs, upstream |-> UpstreamReplies,
     classifier |-> {ClassifiedSafe97}, config |-> "loaded", stored |-> <<>>,
     seconds |-> {0, 1}, limits |-> DashboardLimits, pollFrom |-> 0]

DashboardOldStore ==
    [clients |-> {1}, inputs |-> DashboardInputs, upstream |-> UpstreamReplies,
     classifier |-> {ClassifiedSafe97}, config |-> "loaded", stored |-> EarlierRows,
     seconds |-> {EarlierRows[Len(EarlierRows)].Timestamp,
                  EarlierRows[Len(EarlierRows)].Timestamp + 1},
     limits |-> DashboardLimits, pollFrom |-> 0]

InitDashboard == env \in {Dashboard, DashboardOldStore} /\ Started

(***************************************************************************)
(* A fourth environment: config.yaml is absent, or cannot be decoded.      *)
(***************************************************************************)
NoConfig(file) ==
    [clients |-> {1}, inputs |-> Inputs, upstream |-> UpstreamReplies,
     classifier |-> ClassifierReplies, config |-> file, stored |-> <<>>,
     seconds |-> {0}, limits |-> {<<>>}, pollFrom |-> 1]

InitNoConfig == env \in {NoConfig("absent"), NoConfig("malformed")} /\ Started

(***************************************************************************)
(* A fifth environment: config.yaml lists an empty keyword.                *)
(***************************************************************************)
EmptyKeyword ==
    [clients |-> {1}, inputs |-> SurveyInputs, upstream |-> UpstreamReplies,
     classifier |-> ClassifierReplies, config |-> "empty keyword", stored |-> <<>>,
     seconds |-> {0}, limits |-> {<<>>}, pollFrom |-> 1]

InitEmptyKeyword == env = EmptyKeyword /\ Started

(***************************************************************************)
(* The response writer                                                     *)
(***************************************************************************)
\* http.ResponseWriter.WriteHeader: the header block goes out once, as the map is then
SendHeader(w, h, code) ==
    IF w.wroteHeader THEN w
    ELSE [w EXCEPT !.wroteHeader = TRUE, !.status = code, !.header = h]

\* http.ResponseWriter.Write: an implicit WriteHeader(200) if none went out, then the bytes
SendBody(w, h, b) == [SendHeader(w, h, StatusOK) EXCEPT !.body = @ \o b]

\* responseWriterWrapper.WriteHeader
WrapperWriteHeader(wr, code) == [wr EXCEPT !.statusCode = code]

\* Faulty variant of WrapperWrite: the buffer holds the last chunk only.
WrapperWriteLast(wr, b) == [wr EXCEPT !.body = b]

\* responseWriterWrapper.Write
WrapperWrite(wr, b) == [wr EXCEPT !.body = @ \o b]

\* h.Set(key, value)
HeaderSet(h, key, value) == {p \in h : p[1] # key} \cup {<<key, value>>}

(***************************************************************************)
(* AuditMiddleware, up to its call of next                                 *)
(***************************************************************************)
\* The HTTP server hands a request to the pipeline (requests are numbered in the
\* order in which they arrive; none arrives once the server has shut down).
\* AuditMiddleware reads the body, puts it back and wraps the response writer.
\* io.ReadAll(r.Body): the bytes not read so far, and a body with nothing left in it
ReadAll(body) == [data |-> body, left |-> <<>>]

\* Faulty variant of NopCloser: the request keeps the body the read has drained.
DrainedBody(read, data) == read.left

\* r.Body = io.NopCloser(bytes.NewBuffer(data)), after the read: a body that holds data
NopCloser(read, data) == data

AuditBegin(r) ==
    /\ ~ctxDone
    /\ r \in env.clients
    /\ pc[r] = "new"
    /\ \A q \in Requests : q < r => pc[q] # "new"
    /\ \E in \in env.inputs :
          /\ request' = [request EXCEPT ![r] =
                  [in EXCEPT !.body = NopCloser(ReadAll(in.body), ReadAll(in.body).data)]]
          /\ reqBody' = [reqBody EXCEPT ![r] = ReadAll(in.body).data]
    /\ rw' = [rw EXCEPT ![r] = [statusCode |-> StatusOK, body |-> <<>>]]
    /\ pc' = [pc EXCEPT ![r] = "governance"]
    /\ UNCHANGED <<env, forbiddenKeywords, logsReply, header, wire, downstream, forwarded, auditChan, ctxDone, workerVars, offered, accepted, dropped>>

(***************************************************************************)
(* GovernanceMiddleware                                                    *)
(***************************************************************************)
\* Faulty variant of KeywordMatch: the keyword loop without strings.ToLower.
KeywordMatchCaseSensitive(keywords, bodyStr) ==
    \E k \in 1..Len(keywords) : Contains(bodyStr, keywords[k])

\* the loop over forbiddenKeywords: some keyword is in the body, case folded
KeywordMatch(keywords, bodyStr) ==
    \E k \in 1..Len(keywords) : Contains(ToLower(bodyStr), ToLower(keywords[k]))

RejectionPayload ==
    EncodeStringMap({<<KeyError, SecurityPolicyViolation>>, <<KeyCode, ForbiddenContent>>})

\* Faulty variant of RedactedBody: the redactor leaves the body as it is.
BodyAsReceived(enabled, bodyStr) == bodyStr

\* the body after the redactor
RedactedBody(enabled, bodyStr) ==
    IF ~enabled THEN bodyStr
    ELSE IF bodyStr \in DOMAIN Redactions THEN Redactions[bodyStr]
    ELSE Redact(bodyStr)

\* context.WithValue: the values of the context, by key
WithValue(ctx, key, val) == {p \in ctx : p[1] # key} \cup {<<key, val>>}

\* Faulty variant of Bypasses: a request without a body is passed on as well.
BypassesWithoutBody(req) == req.method # "POST" \/ req.body = <<>>

\* if r.Method != http.MethodPost || r.Body == nil: the request goes to next as it is.
\* (The server never hands a handler a nil Body: a request without a body has an empty
\* one, and AuditMiddleware has put a buffer in its place.)
Bypasses(req) == req.method # "POST"

GovernancePass(r) ==
    /\ Bypasses(request[r])
    /\ downstream' = [downstream EXCEPT ![r] =
            [called |-> TRUE, body |-> request[r].body, ctx |-> {}]]
    /\ pc' = [pc EXCEPT ![r] = "proxy"]
    /\ UNCHANGED <<request, rw, header, wire>>

GovernanceBlock(r) ==
    /\ ~Bypasses(request[r])
    /\ KeywordMatch(forbiddenKeywords, ReadAll(request[r].body).data)
    /\ LET h == HeaderSet(header[r], "Content-Type", "application/json")
       IN /\ wire' = [wire EXCEPT ![r] =
                  SendBody(SendHeader(wire[r], h, StatusForbidden), h, RejectionPayload)]
          /\ rw' = [rw EXCEPT ![r] =
                  WrapperWrite(WrapperWriteHeader(rw[r], StatusForbidden), RejectionPayload)]
          /\ header' = [header EXCEPT ![r] = HeaderSet(h, "X-Vantage-Blocked", "true")]
    \* the body was read and is not put back; next is not called
    /\ request' = [request EXCEPT ![r].body = ReadAll(@).left]
    /\ pc' = [pc EXCEPT ![r] = "audit"]
    /\ UNCHANGED downstream

GovernanceAdmit(r) ==
    /\ ~Bypasses(request[r])
    /\ ~KeywordMatch(forbiddenKeywords, ReadAll(request[r].body).data)
    /\ LET original == ReadAll(request[r].body).data
           bodyStr == RedactedBody(RedactionEnabled, original)
           isRedacted == RedactionEnabled /\ bodyStr # original
           body == IF isRedacted THEN bodyStr ELSE original
           restored == NopCloser(ReadAll(request[r].body), body)
       IN /\ request' = [request EXCEPT ![r].body = restored]
          /\ downstream' = [downstream EXCEPT ![r] =
                  [called |-> TRUE, body |-> restored,
                   ctx |-> WithValue({}, "is_redacted", isRedacted)]]
    /\ pc' = [pc EXCEPT ![r] = "proxy"]
    /\ UNCHANGED <<rw, header, wire>>

Governance(r) ==
    /\ pc[r] = "governance"
    /\ \/ GovernancePass(r)
       \/ GovernanceBlock(r)
       \/ GovernanceAdmit(r)
    /\ UNCHANGED <<env, forbiddenKeywords, logsReply, reqBody, forwarded, auditChan, ctxDone, workerVars,
                   offered, accepted, dropped>>

(***************************************************************************)
(* The /v1/* handler: the reverse proxy                                    *)
(***************************************************************************)
\* The proxy sends the request on with the body it reads from it, and relays the
\* answer: status first, then the body.
\* the pieces in which the reverse proxy copies a body to the response writer: the
\* body arrives in one piece (the empty second piece stands for no further Write) or
\* in two
Chunkings(body) ==
    {<<SubSeq(body, 1, cut), SubSeq(body, cut + 1, Len(body))>> :
        cut \in {Len(body) \div 2, Len(body)}}

ProxyServe(r) ==
    /\ pc[r] = "proxy"
    /\ forwarded' = [forwarded EXCEPT ![r] = Append(@, ReadAll(request[r].body).data)]
    /\ request' = [request EXCEPT ![r].body = ReadAll(@).left]
    /\ \E reply \in env.upstream : \E chunks \in Chunkings(reply.body) :
          /\ wire' = [wire EXCEPT ![r] =
                  SendBody(SendBody(SendHeader(wire[r], header[r], reply.status),
                                    header[r], chunks[1]),
                           header[r], chunks[2])]
          /\ rw' = [rw EXCEPT ![r] =
                  WrapperWrite(WrapperWrite(WrapperWriteHeader(rw[r], reply.status),
                                            chunks[1]),
                               chunks[2])]
    /\ pc' = [pc EXCEPT ![r] = "audit"]
    /\ UNCHANGED <<env, forbiddenKeywords, logsReply, reqBody, header, downstream, auditChan, ctxDone,
                   workerVars, offered, accepted, dropped>>

\* The provider's answer breaks off after the status went out: ReverseProxy panics with
\* http.ErrAbortHandler, which unwinds GovernanceMiddleware and AuditMiddleware (neither
\* defers anything) up to the router's Recoverer.
ProxyAbort(r) ==
    /\ pc[r] = "proxy"
    /\ forwarded' = [forwarded EXCEPT ![r] = Append(@, ReadAll(request[r].body).data)]
    /\ request' = [request EXCEPT ![r].body = ReadAll(@).left]
    /\ \E reply \in env.upstream :
          /\ wire' = [wire EXCEPT ![r] = SendHeader(wire[r], header[r], reply.status)]
          /\ rw' = [rw EXCEPT ![r] = WrapperWriteHeader(rw[r], reply.status)]
    /\ pc' = [pc EXCEPT ![r] = "aborted"]
    /\ UNCHANGED <<env, forbiddenKeywords, logsReply, reqBody, header, downstream, auditChan, ctxDone,
                   workerVars, offered, accepted, dropped>>

(***************************************************************************)
(* AuditMiddleware, after next has returned                                *)
(***************************************************************************)
\* Faulty variant of NewInteraction: the flags are worked out from the response headers
\* and from the body as it was received.
NewInteractionFlagged(r) ==
    [id |-> r,
     UserID |-> "",
     Method |-> request[r].method,
     Path |-> request[r].path,
     RequestBody |-> reqBody[r],
     ResponseBody |-> rw[r].body,
     StatusCode |-> rw[r].statusCode,
     IsBlocked |-> \E h \in header[r] : h[1] = "X-Vantage-Blocked",
     IsRedacted |-> RedactedBody(RedactionEnabled, reqBody[r]) # reqBody[r]]

\* The Interaction literal: the fields it names; the others keep Go's zero values.
\* id is not a field of the program's struct: it names the request the event belongs to.
NewInteraction(r) ==
    [id |-> r,
     UserID |-> "",
     Method |-> request[r].method,
     Path |-> request[r].path,
     RequestBody |-> reqBody[r],
     ResponseBody |-> rw[r].body,
     StatusCode |-> rw[r].statusCode,
     IsBlocked |-> FALSE,
     IsRedacted |-> FALSE]

\* Faulty variant of TrySend: a plain send, auditChan <- interaction, which waits for
\* a free slot.
BlockingSend(r, interaction) ==
    /\ Len(auditChan) < QueueCap
    /\ auditChan' = Append(auditChan, interaction)
    /\ accepted' = Append(accepted, r)
    /\ dropped' = dropped

\* Faulty variant of TrySend: on a full channel the oldest event makes room for the
\* new one.
EvictOldestSend(r, interaction) ==
    IF Len(auditChan) < QueueCap
    THEN /\ auditChan' = Append(auditChan, interaction)
         /\ accepted' = Append(accepted, r)
         /\ dropped' = dropped
    ELSE /\ auditChan' = Append(Tail(auditChan), interaction)
         /\ accepted' = Append(accepted, r)
         /\ dropped' = dropped \cup {Head(auditChan).id}

\* Faulty variant of TrySend: the channel takes the event whatever it already holds.
UnboundedSend(r, interaction) ==
    /\ auditChan' = Append(auditChan, interaction)
    /\ accepted' = Append(accepted, r)
    /\ dropped' = dropped

\* select { case auditChan <- interaction: default: }
TrySend(r, interaction) ==
    IF Len(auditChan) < QueueCap
    THEN /\ auditChan' = Append(auditChan, interaction)
         /\ accepted' = Append(accepted, r)
         /\ dropped' = dropped
    ELSE /\ auditChan' = auditChan
         /\ accepted' = accepted
         /\ dropped' = dropped \cup {r}

AuditEnd(r) ==
    /\ pc[r] = "audit"
    /\ TrySend(r, NewInteraction(r))
    /\ offered' = [offered EXCEPT ![r] = @ + 1]
    /\ pc' = [pc EXCEPT ![r] = "done"]
    /\ UNCHANGED <<env, forbiddenKeywords, logsReply, reqVars, ctxDone, workerVars>>

(***************************************************************************)
(* main: shutdown                                                          *)
(***************************************************************************)
\* no handler of the pipeline is running
Quiescent == \A r \in Requests : pc[r] \in {"new", "done", "aborted"}

\* SIGINT or SIGTERM: httpServer.Shutdown stops accepting and returns nil once every
\* handler has returned; main then returns and its deferred cancel() runs.  (When
\* Shutdown times out instead, log.Fatalf ends the process and nothing is cancelled.)
Shutdown ==
    /\ ~ctxDone
    /\ Quiescent
    /\ ctxDone' = TRUE
    /\ UNCHANGED <<env, forbiddenKeywords, logsReply, pc, reqVars, auditChan, workerVars, offered, accepted,
                   dropped>>

(***************************************************************************)
(* The audit Worker                                                        *)
(***************************************************************************)
\* Faulty variant of CanReceive: the loop has no ctx.Done() case that returns, so the
\* worker keeps receiving after it was told to stop.
CanReceiveWhenStopped == wpc \in {"select", "stopped"} /\ auditChan # <<>>

\* Faulty variant of CanReceive: a second consumer takes events while the first waits
\* for the classifier.
CanReceiveWhileClassifying == wpc \in {"select", "classify"} /\ auditChan # <<>>

\* the worker goroutine is at its select and may take the channel case
CanReceive == wpc = "select" /\ auditChan # <<>>

\* Faulty variant of Recv: the event received stays on the channel.
RecvCopy(ch) == [item |-> Head(ch), rest |-> ch]

\* a receive from the channel whose buffer is ch: the oldest event, and what stays behind
Recv(ch) == [item |-> Head(ch), rest |-> Tail(ch)]

\* case interaction, ok := <-w.auditChan: processInteraction(interaction) begins
WorkerReceive ==
    /\ CanReceive
    /\ cur' = Recv(auditChan).item
    /\ auditChan' = Recv(auditChan).rest
    /\ received' = Append(received, Recv(auditChan).item.id)
    /\ fate' = [fate EXCEPT ![Recv(auditChan).item.id] = "processing"]
    /\ wpc' = "metrics"
    /\ tokens' = 0
    /\ safetyScore' = 0
    /\ UNCHANGED <<env, forbiddenKeywords, logsReply, pc, reqVars, ctxDone, store, httpRequestsTotal,
                   httpRequestDuration, tokenUsageTotal, classifyCalls, result, offered,
                   accepted, dropped>>

\* case <-ctx.Done(): return
WorkerStop ==
    /\ wpc = "select"
    /\ ctxDone
    /\ wpc' = "stopped"
    /\ UNCHANGED <<env, forbiddenKeywords, logsReply, pc, reqVars, auditChan, ctxDone, cur, tokens,
                   safetyScore, store, httpRequestsTotal, httpRequestDuration, tokenUsageTotal,
                   classifyCalls, result, offered, accepted, dropped, received, fate>>

\* CounterVec.WithLabelValues(labels...).Inc() and HistogramVec...Observe()
\* Faulty variant of Inc: the child goes up by two.
IncTwice(vec, labels) ==
    IF labels \in DOMAIN vec THEN [vec EXCEPT ![labels] = @ + 2] ELSE vec @@ (labels :> 2)

Inc(vec, labels) ==
    IF labels \in DOMAIN vec THEN [vec EXCEPT ![labels] = @ + 1] ELSE vec @@ (labels :> 1)

\* 1. Update Metrics
UpdateMetrics ==
    /\ wpc = "metrics"
    /\ httpRequestsTotal' = Inc(httpRequestsTotal, <<cur.Method, cur.Path, cur.StatusCode>>)
    /\ httpRequestDuration' = Inc(httpRequestDuration, <<cur.Method, cur.Path>>)
    /\ wpc' = "tokens"
    /\ UNCHANGED <<env, forbiddenKeywords, logsReply, pc, reqVars, auditChan, ctxDone, cur, tokens,
                   safetyScore, store, tokenUsageTotal, classifyCalls, result, offered,
                   accepted, dropped, received, fate>>

\* m[key].(float64), converted with int(): 0 when the member is missing or no number
NumberAt(obj, key) == IF Member(obj, key).k = "num" THEN Member(obj, key).v ELSE 0

\* Faulty variant of ShapeTokens: output_tokens is left out.
ShapeInputTokens(meta, shape) ==
    IF Member(meta, shape).k = "obj"
    THEN NumberAt(Member(meta, shape), KeyInputTokens)
    ELSE 0

\* the two additions an `if bu, ok := meta[shape].(map[string]interface{}); ok` block makes
ShapeTokens(meta, shape) ==
    IF Member(meta, shape).k = "obj"
    THEN NumberAt(Member(meta, shape), KeyInputTokens)
         + NumberAt(Member(meta, shape), KeyOutputTokens)
    ELSE 0

\* Faulty variant of ExtractTokens: the response is searched for token counts
\* whatever its status and path.
ExtractTokensAnyStatus(i) ==
    LET raw == Decode(i.ResponseBody)
    IN IF raw.ok /\ raw.v.k = "obj" /\ Member(raw.v, KeyMeta).k = "obj"
       THEN ShapeTokens(Member(raw.v, KeyMeta), KeyBilledUnits)
            + ShapeTokens(Member(raw.v, KeyMeta), KeyTokens)
       ELSE 0

\* 2. Parse Tokens: the value of tokens after the block
ExtractTokens(i) ==
    IF i.StatusCode = StatusOK /\ Contains(i.Path, ChatMarker)
    THEN LET raw == Decode(i.ResponseBody)
         IN IF raw.ok /\ raw.v.k = "obj" /\ Member(raw.v, KeyMeta).k = "obj"
            THEN ShapeTokens(Member(raw.v, KeyMeta), KeyBilledUnits)
                 + ShapeTokens(Member(raw.v, KeyMeta), KeyTokens)
            ELSE 0
    ELSE 0

ParseTokens ==
    /\ wpc = "tokens"
    /\ LET extracted == ExtractTokens(cur)
       IN /\ tokens' = extracted
          /\ tokenUsageTotal' = tokenUsageTotal + extracted
    /\ wpc' = "safety"
    /\ UNCHANGED <<env, forbiddenKeywords, logsReply, pc, reqVars, auditChan, ctxDone, cur, safetyScore,
                   store, httpRequestsTotal, httpRequestDuration, classifyCalls, result,
                   offered, accepted, dropped, received, fate>>

\* Faulty variant of ChatMessage: the request body as it is stands for the message,
\* neither decoded nor checked for being empty.
WholeBodyAsMessage(body) == body

\* json.Unmarshal(reqBody, &chatReq): chatReq.Message, or <<>> when Unmarshal fails.
\* A member is the message field when its key equals "message" ignoring case; a value
\* that is no string and not null makes Unmarshal fail; of several the last one stays.
ChatMessage(body) ==
    LET val == Decode(body)
    IN IF ~val.ok \/ val.v.k # "obj" THEN <<>>
       ELSE LET hits == {i \in 1..Len(val.v.v) : ToLower(val.v.v[i][1]) = KeyMessage}
                strs == {i \in hits : val.v.v[i][2].k = "str"}
                isNull(i) == val.v.v[i][2].k = "lit" /\ val.v.v[i][2].v = "null"
            IN IF \E i \in hits \ strs : ~isNull(i) THEN <<>>
               ELSE IF strs = {} THEN <<>>
               ELSE val.v.v[CHOOSE i \in strs : \A j \in strs : j <= i][2].v

\* 3. Safety Check: performSafetyAudit up to client.Do(req)
SafetyAudit ==
    /\ wpc = "safety"
    /\ LET message == ChatMessage(cur.RequestBody)
       IN IF message = <<>>
          THEN /\ safetyScore' = 100
               /\ wpc' = "persist"
               /\ UNCHANGED classifyCalls
          ELSE /\ classifyCalls' = Append(classifyCalls, [id |-> cur.id, input |-> message])
               /\ wpc' = "classify"
               /\ UNCHANGED safetyScore
    /\ UNCHANGED <<env, forbiddenKeywords, logsReply, pc, reqVars, auditChan, ctxDone, cur, tokens, store,
                   httpRequestsTotal, httpRequestDuration, tokenUsageTotal, result, offered,
                   accepted, dropped, received, fate>>

\* Faulty variant of ScoreOf: the labels of the classification are not looked at.
ScoreOfPrediction(reply) ==
    IF reply.err THEN 100
    ELSE IF reply.decodeErr \/ Len(reply.classifications) = 0 THEN 100
    ELSE IF reply.classifications[1].prediction = "safe" THEN 100
    ELSE 0

\* performSafetyAudit from the return of client.Do(req) on
ScoreOf(reply) ==
    IF reply.err THEN 100
    ELSE IF reply.decodeErr \/ Len(reply.classifications) = 0 THEN 100
    ELSE LET first == reply.classifications[1]
         IN IF "safe" \in DOMAIN first.labels THEN first.labels["safe"]
            ELSE IF first.prediction = "safe" THEN 100
            ELSE 0

ClassifyReturn ==
    /\ wpc = "classify"
    /\ \E reply \in env.classifier :
          /\ result' = reply
          /\ safetyScore' = ScoreOf(reply)
    /\ wpc' = "persist"
    /\ UNCHANGED <<env, forbiddenKeywords, logsReply, pc, reqVars, auditChan, ctxDone, cur, tokens, store,
                   httpRequestsTotal, httpRequestDuration, tokenUsageTotal, classifyCalls,
                   offered, accepted, dropped, received, fate>>

\* the row LogInteractionDetailed's arguments make in interaction_logs
Row(i, tk, score) ==
    [id |-> i.id,
     UserID |-> i.UserID,
     Method |-> i.Method,
     Path |-> i.Path,
     RequestBody |-> i.RequestBody,
     ResponseBody |-> i.ResponseBody,
     StatusCode |-> i.StatusCode,
     Tokens |-> tk,
     SafetyScore |-> score,
     IsBlocked |-> i.IsBlocked,
     IsRedacted |-> i.IsRedacted]

\* Faulty variant of LogInteractionDetailed: the INSERT runs twice.
InsertTwice(rows, row) == Append(Append(rows, row), row)

\* Faulty variant of LogInteractionDetailed: the new row goes in front of the others.
InsertFirst(rows, row) == <<row>> \o rows

\* Store.LogInteractionDetailed when the INSERT succeeds
LogInteractionDetailed(rows, row) == Append(rows, row)

\* timestamp DATETIME DEFAULT CURRENT_TIMESTAMP: the INSERT names no timestamp, so the
\* row gets the second in which it is written
Stamped(row, now) ==
    [f \in DOMAIN row \cup {"Timestamp"} |-> IF f = "Timestamp" THEN now ELSE row[f]]

\* the seconds in which the next INSERT can run: the clock does not run backwards
SecondsLeft(rows) ==
    {t \in env.seconds : rows # <<>> => t >= rows[Len(rows)].Timestamp}

\* Faulty variant of WriteFailureLogged: the event goes back on the channel.
WriteFailureRequeued(ch, i) == IF Len(ch) < QueueCap THEN Append(ch, i) ELSE ch

\* if err != nil { log.Printf(...) }: the channel after a failed INSERT
WriteFailureLogged(ch, i) == ch

\* 4. Commit to SQLite: the INSERT succeeds, or fails and is only logged
Persist ==
    /\ wpc = "persist"
    /\ \/ /\ \E now \in SecondsLeft(store) :
                store' = LogInteractionDetailed(store,
                                                Stamped(Row(cur, tokens, safetyScore), now))
          /\ fate' = [fate EXCEPT ![cur.id] = "written"]
          /\ auditChan' = auditChan
       \/ /\ store' = store
          /\ fate' = [fate EXCEPT ![cur.id] = "failed"]
          /\ auditChan' = WriteFailureLogged(auditChan, cur)
    /\ wpc' = "select"
    /\ cur' = NoInteraction
    /\ tokens' = 0
    /\ safetyScore' = 0
    /\ result' = NoResult
    /\ UNCHANGED <<env, forbiddenKeywords, logsReply, pc, reqVars, ctxDone, httpRequestsTotal,
                   httpRequestDuration, tokenUsageTotal, classifyCalls, offered, accepted,
                   dropped, received>>

\* Faulty variant of AfterPanic: without the deferred recover() the panic ends the
\* goroutine.
PanicUnrecovered == "crashed"

\* where the worker goroutine is after processInteraction's deferred recover() has run
AfterPanic == "select"

\* A panic at the step the worker is at: the deferred function recovers it,
\* processInteraction returns and the loop of Start goes on.
WorkerPanic ==
    /\ wpc \in {"metrics", "tokens", "safety", "classify", "persist"}
    /\ wpc' = AfterPanic
    /\ fate' = [fate EXCEPT ![cur.id] = "panicked"]
    /\ cur' = NoInteraction
    /\ tokens' = 0
    /\ safetyScore' = 0
    /\ result' = NoResult
    /\ UNCHANGED <<env, forbiddenKeywords, logsReply, pc, reqVars, auditChan, ctxDone, store, httpRequestsTotal, httpRequestDuration,
                   tokenUsageTotal, classifyCalls, offered, accepted, dropped, received>>

(***************************************************************************)
(* GET /api/logs                                                           *)
(***************************************************************************)
\* strconv.Atoi: an optional sign and decimal digits; anything else is 0 and an error
Atoi(str) ==
    LET signed == str # <<>> /\ str[1] \in {"+", "-"}
        ds == IF signed THEN Tail(str) ELSE str
    IN IF ds = <<>> \/ \E k \in 1..Len(ds) : ds[k] \notin Digits
       THEN [n |-> 0, err |-> TRUE]
       ELSE [n |-> IF signed /\ str[1] = "-" THEN 0 - Decimal(ds) ELSE Decimal(ds),
             err |-> FALSE]

\* Faulty variant of LimitOrDefault: the limit goes to the store as it was given.
LimitAsGiven(limit) == limit

\* if limit == 0 { limit = 50 }
LimitOrDefault(limit) == IF limit = 0 THEN DefaultLimit ELSE limit

\* ORDER BY timestamp DESC says nothing about rows of one second: they come out as
\* they were inserted, or the other way round
TieOrders == {"inserted", "reversed"}

\* ORDER BY timestamp DESC: the a-th row inserted comes out before the b-th
ComesBefore(rows, ties, a, b) ==
    \/ rows[a].Timestamp > rows[b].Timestamp
    \/ /\ rows[a].Timestamp = rows[b].Timestamp
       /\ IF ties = "inserted" THEN a < b ELSE a > b

\* the rows in the order of the query
OrderByTimestampDesc(rows, ties) ==
    CHOOSE out \in
        {[p \in 1..Len(rows) |-> rows[CHOOSE k \in 1..Len(rows) : rank[k] = p]] :
            rank \in {[k \in 1..Len(rows) |->
                         1 + Cardinality({j \in 1..Len(rows) :
                                             ComesBefore(rows, ties, j, k)})]}} : TRUE

\* Faulty variant of Limited: the query has no LIMIT.
Unlimited(rows, limit) == rows

\* LIMIT ?: SQLite takes a negative limit as no limit
Limited(rows, limit) ==
    IF limit < 0 THEN rows ELSE SubSeq(rows, 1, Min(limit, Len(rows)))

\* Store.GetLogs when the query succeeds
GetLogs(rows, limit, ties) == Limited(OrderByTimestampDesc(rows, ties), limit)

StatusInternalServerError == 500

\* Faulty variant of handleGetLogs: the handler also writes a row for the access.
handleGetLogsRecorded ==
    /\ ~ctxDone
    /\ Len(store) >= env.pollFrom
    /\ \E limitStr \in env.limits :
          logsReply' =
              [limit |-> limitStr, status |-> StatusOK,
               logs |-> GetLogs(store, LimitOrDefault(Atoi(limitStr).n), "inserted"),
               rows |-> Len(store)]
    /\ \E now \in SecondsLeft(store) :
          store' = Append(store, [EarlierRow(0) EXCEPT !.Timestamp = now])
    /\ UNCHANGED <<env, forbiddenKeywords, pc, reqVars, auditChan, ctxDone, wpc, cur, tokens,
                   safetyScore, httpRequestsTotal, httpRequestDuration, tokenUsageTotal,
                   classifyCalls, result, received, fate, offered, accepted, dropped>>

\* handleGetLogs: the limit of the query string, 50 in place of 0, the store's answer
\* as the body; a failed query is answered with 500.  (The server takes no request once
\* it has shut down.)
handleGetLogs ==
    /\ ~ctxDone
    /\ Len(store) >= env.pollFrom
    /\ \E limitStr \in env.limits :
          \/ \E ties \in TieOrders :
                logsReply' =
                    [limit |-> limitStr, status |-> StatusOK,
                     logs |-> GetLogs(store, LimitOrDefault(Atoi(limitStr).n), ties),
                     rows |-> Len(store)]
          \/ logsReply' =
                [limit |-> limitStr, status |-> StatusInternalServerError, logs |-> <<>>,
                 rows |-> Len(store)]
    /\ UNCHANGED <<env, forbiddenKeywords, pc, reqVars, auditChan, ctxDone, workerVars, offered,
                   accepted, dropped>>

Next ==
    \/ \E r \in Requests : AuditBegin(r)
    \/ \E r \in Requests : Governance(r)
    \/ \E r \in Requests : ProxyServe(r)
    \/ \E r \in Requests : ProxyAbort(r)
    \/ \E r \in Requests : AuditEnd(r)
    \/ Shutdown
    \/ WorkerReceive
    \/ WorkerStop
    \/ UpdateMetrics
    \/ ParseTokens
    \/ SafetyAudit
    \/ ClassifyReturn
    \/ Persist
    \/ WorkerPanic
    \/ handleGetLogs

Spec == Init /\ [][Next]_vars

SpecSurvey == InitSurvey /\ [][Next]_vars

SpecDashboard == InitDashboard /\ [][Next]_vars

SpecNoConfig == InitNoConfig /\ [][Next]_vars

SpecEmptyKeyword == InitEmptyKeyword /\ [][Next]_vars

(***************************************************************************)
(* Liveness: two clients and the dashboard over a new audit.db, with the   *)
(* worker goroutine scheduled fairly.                                      *)
(***************************************************************************)
\* The goroutine of Start runs: a step of processInteraction that needs nobody else
\* (the telemetry calls, the token block, the decoding of the message, the INSERT) is
\* taken; and select picks at random among the cases that are ready, so a case that is
\* ready again and again is taken.  Nothing makes client.Do return: the request has no
\* context and the http.Client no Timeout, so the classifier may keep the worker
\* waiting for ever; and nothing makes a step panic.
WorkerFairness ==
    /\ WF_vars(UpdateMetrics)
    /\ WF_vars(ParseTokens)
    /\ WF_vars(SafetyAudit)
    /\ WF_vars(Persist)
    /\ SF_vars(WorkerReceive)
    /\ SF_vars(WorkerStop)

Lifecycle ==
    [clients |-> {1, 2}, inputs |-> DashboardInputs, upstream |-> UpstreamReplies,
     classifier |-> ClassifierReplies, config |-> "loaded", stored |-> <<>>,
     seconds |-> {0}, limits |-> {<<>>}, pollFrom |-> 0]

InitLive == env = Lifecycle /\ Started

SpecLive == InitLive /\ [][Next]_vars /\ WorkerFairness

(***************************************************************************)
(* Properties                                                              *)
(***************************************************************************)
\* kw occurs in body at offset off, letters compared without regard to case
OccursFoldedAt(body, kw, off) ==
    \A i \in 1..Len(kw) : ToLowerChar(body[off + i]) = ToLowerChar(kw[i])

\* body holds a configured forbidden keyword, in any letter case, anywhere
HasForbiddenKeyword(body) ==
    \E k \in 1..Len(forbiddenKeywords) :
        \E off \in 0..(Len(body) - Len(forbiddenKeywords[k])) :
            OccursFoldedAt(body, forbiddenKeywords[k], off)

\* bytes decode to the object {"error":"Security Policy Violation","code":"FORBIDDEN_CONTENT"}
IsRejectionJSON(bytes) ==
    LET val == Unmarshal(bytes)
    IN /\ val.ok
       /\ val.v.k = "obj"
       /\ Range(val.v.v) =
             {<<KeyError, [k |-> "str", v |-> SecurityPolicyViolation]>>,
              <<KeyCode, [k |-> "str", v |-> ForbiddenContent]>>}

\* the handlers below AuditMiddleware have returned: the response is complete
Answered(r) == pc[r] \in {"audit", "done"}

\* the request was turned away by the keyword rule: next was never called
Rejected(r) == Answered(r) /\ ~downstream[r].called

Captured ==
    Range(auditChan) \cup Range(store) \cup (IF cur = NoInteraction THEN {} ELSE {cur})

\* C2 as claimed: the requestBody of every Interaction AuditMiddleware enqueues, and of
\* every persisted record, is the body that was forwarded upstream (the redacted one).
C2_AuditBodyIsForwardedBody ==
    \A i \in Captured :
        forwarded[i.id] # <<>> => i.RequestBody = forwarded[i.id][1]

\* the consumer cannot take anything from the channel right now: it is inside a
\* classification call or a store write, or it has stopped
ConsumerStalled == wpc \in {"classify", "persist", "stopped"}

\* C3: a request that has reached AuditMiddleware's enqueue step can always complete it
\* at once, whatever the channel holds and whatever the worker is doing (also after a
\* panic or a failed write in the worker), and no step of the worker changes what a
\* client has been sent or where a request is in the pipeline.
C3_EnqueueNeverBlocks ==
    /\ [](\A r \in Requests : pc[r] = "audit" => ENABLED AuditEnd(r))
    /\ [][wpc' # wpc => (wire' = wire /\ rw' = rw /\ pc' = pc)]_vars

C3_Witness ==
    \E r \in Requests :
        /\ pc[r] = "audit"
        /\ Len(auditChan) = QueueCap
        /\ ConsumerStalled

\* the requests whose record is in the store
Persisted == {store[k].id : k \in 1..Len(store)}

\* C4: an enqueue attempt on a full channel discards the new event: the channel's
\* contents and order stay as they were, and the discarded event is never received by
\* the worker nor persisted.
C4_FullQueueDropsNewest ==
    /\ [][\A r \in Requests :
            (pc[r] = "audit" /\ pc'[r] = "done" /\ Len(auditChan) = QueueCap) =>
                (auditChan' = auditChan /\ r \in dropped')]_vars
    /\ [](\A r \in dropped : r \notin Range(received) /\ r \notin Persisted)

C4_Witness ==
    \E r \in dropped :
        /\ pc[r] = "done"
        /\ Len(auditChan) = QueueCap
        /\ store # <<>>

\* C5 as claimed: every request that entered the pipeline and whose handling is over
\* made exactly one enqueue attempt (and none ever makes more than one).
C5_ExactlyOneOfferPerRequest ==
    \A r \in Requests :
        /\ offered[r] <= 1
        /\ pc[r] \in {"done", "aborted"} => offered[r] = 1

\* the number of rows the store holds for request r's event
RowsOf(r) == Cardinality({k \in 1..Len(store) : store[k].id = r})

\* the worker is done with request r's event, one way or another
Finished(r) == fate[r] \in {"written", "failed", "panicked"}

\* C6 as claimed: every event the worker has dequeued and is done with has exactly one
\* row in the store.
C6_ExactlyOneRowPerDequeued ==
    \A r \in Range(received) : Finished(r) => RowsOf(r) = 1

\* C6, amended: an event has at most one row, and it has one exactly when the worker
\* dequeued it and its INSERT succeeded; a failed INSERT or a panic leaves it without
\* a row, and an event that was never dequeued has none.
C6_AtMostOneRowPerDequeued ==
    \A r \in Requests :
        /\ RowsOf(r) <= 1
        /\ RowsOf(r) = 1 <=> fate[r] = "written"
        /\ fate[r] # "none" <=> r \in Range(received)

C6_Witness ==
    \E a, b, c \in Range(received) :
        /\ fate[a] = "written" /\ RowsOf(a) = 1
        /\ fate[b] = "failed" /\ RowsOf(b) = 0
        /\ fate[c] = "panicked" /\ RowsOf(c) = 0

\* the place of x in a sequence that holds it
PosIn(seq, x) == CHOOSE i \in 1..Len(seq) : seq[i] = x

C8_PanicKeepsWorkerRunning ==
    /\ [][(\E r \in Requests : fate[r] = "processing" /\ fate'[r] = "panicked") =>
            (wpc' = "select" /\ cur' = NoInteraction /\ auditChan' = auditChan
                /\ store' = store)]_vars
    /\ [](wpc \in {"select", "metrics", "tokens", "safety", "classify", "persist", "stopped"})
    /\ [](wpc = "stopped" => ctxDone)
    /\ []((wpc = "select" /\ auditChan # <<>>) => ENABLED WorkerReceive)

C8_Witness ==
    \E a, b \in Range(received) :
        /\ PosIn(received, a) < PosIn(received, b)
        /\ fate[a] = "panicked"
        /\ fate[b] = "written"
        /\ ~ctxDone

\* C9 as claimed: once the worker's context is cancelled the worker takes nothing
\* more from the channel.
C9_NoDequeueAfterSignal ==
    [][ctxDone => received' = received]_vars

\* C9, amended: the worker stops only by cancellation and only from its select, that
\* is between two events and with none in hand; once stopped it stays stopped, takes
\* nothing more from the channel and writes nothing more to the store.  Until it
\* stops it may still take events, cancelled or not.
C9_StopsBetweenEventsAndStaysStopped ==
    /\ [](wpc = "stopped" => (ctxDone /\ cur = NoInteraction))
    /\ [][(wpc # "stopped" /\ wpc' = "stopped") => (wpc = "select" /\ ctxDone)]_vars
    /\ [][wpc = "stopped" =>
            (wpc' = "stopped" /\ received' = received /\ store' = store
                /\ auditChan' = auditChan)]_vars

C9_Witness ==
    /\ wpc = "stopped"
    /\ auditChan # <<>>
    /\ \E r \in Range(received) : fate[r] = "written"
    /\ \A k \in 1..Len(auditChan) : auditChan[k].id \notin Persisted

\* C10 as claimed: the row of a request that the keyword rule rejected says that it
\* was blocked, carries the rejection status and counts no tokens.
C10_RejectedRequestRecordedAsBlocked ==
    \A k \in 1..Len(store) :
        Rejected(store[k].id) =>
            /\ store[k].IsBlocked
            /\ store[k].StatusCode = StatusForbidden
            /\ store[k].Tokens = 0

\* GovernanceMiddleware replaced PII in the body of request r before passing it on
RedactedByGovernance(r) == downstream[r].called /\ downstream[r].body # reqBody[r]

\* C11 as claimed: the Interaction of a request whose body GovernanceMiddleware redacted
\* (no forbidden keyword, a PII token, redaction enabled) has isRedacted = true, and so
\* has its persisted record.
C11_RedactedRequestRecordedAsRedacted ==
    \A i \in Captured : RedactedByGovernance(i.id) => i.IsRedacted

\* the three patterns of the PII redactor
PiiPatterns == {emailRegex, phoneRegex, uuidRegex}

\* the PII tokens of s under pattern re: the texts of its non-overlapping matches,
\* leftmost first, from position from on
RECURSIVE MatchedTexts(_, _, _)
MatchedTexts(re, s, from) ==
    LET m == FindFrom(re, s, from)
    IN IF m = <<>> THEN {}
       ELSE {SubSeq(s, m[1], m[2] - 1)} \cup MatchedTexts(re, s, m[2])

\* sent holds none of the PII tokens of original, and no match of any pattern at all
Scrubbed(original, sent) ==
    \A re \in PiiPatterns :
        /\ \A tok \in MatchedTexts(re, original, 1) : ~Contains(sent, tok)
        /\ FindFrom(re, sent, 1) = <<>>

C13_RedactionIdempotent ==
    \A r \in Requests :
        (request[r].method = "POST" /\ downstream[r].called) =>
            Redact(downstream[r].body) = downstream[r].body

C13_Witness ==
    \E r \in Requests :
        /\ reqBody[r] \in {BodyPII, BodyDigitUUID}
        /\ request[r].method = "POST"
        /\ downstream[r].called
        /\ downstream[r].body = Redact(reqBody[r])
        /\ downstream[r].body # reqBody[r]

\* C14 as claimed, for a request that carries the identity header: the userID of its
\* Interaction, and of its persisted record, is the value of X-User-ID.
C14_UserIDIsIdentityHeader ==
    \A i \in Captured :
        request[i.id].xUserID # "" => i.UserID = request[i.id].xUserID

\* the internal block marker is among the headers h
HasBlockMarker(h) == \E p \in h : p[1] = "X-Vantage-Blocked"

\* C15 as claimed: once AuditMiddleware has finished with a rejected request, the block
\* marker is not among the headers sent to the client, AuditMiddleware has taken it off
\* the response's headers, and the Interaction it built from it says blocked.
C15_BlockMarkerConsumedAndStripped ==
    \A r \in Requests :
        (Rejected(r) /\ pc[r] = "done") =>
            /\ ~HasBlockMarker(wire[r].header)
            /\ ~HasBlockMarker(header[r])
            /\ \A i \in Captured : i.id = r => i.IsBlocked

\* request bodies without a message to classify: no body, no JSON, no message member, an
\* empty message, a message that is no string
NoMessageBodies == {<<>>, BodyNotJSON, BodyNoMessage, BodyEmptyMessage, BodyNumberMessage}

\* C16: for a dequeued Interaction whose request body cannot be parsed or carries no
\* (or an empty) message, no classification call is made and the safety score that is
\* recorded is 1.0 (100 hundredths).
C16_NoMessageFailsOpenWithoutCall ==
    /\ \A k \in 1..Len(store) :
          store[k].RequestBody \in NoMessageBodies => store[k].SafetyScore = 100
    /\ \A k \in 1..Len(classifyCalls) : reqBody[classifyCalls[k].id] \notin NoMessageBodies
    /\ (cur # NoInteraction /\ cur.RequestBody \in NoMessageBodies) =>
          /\ wpc # "classify"
          /\ wpc = "persist" => safetyScore = 100

C16_Witness ==
    \E k \in 1..Len(store) :
        /\ store[k].RequestBody \in NoMessageBodies
        /\ store[k].SafetyScore = 100
        /\ classifyCalls = <<>>

\* the classify calls made for the Interaction of request r
CallsFor(r) == {k \in 1..Len(classifyCalls) : classifyCalls[k].id = r}

\* the safety score, in hundredths, that goes with each reply of the classifier
ScoreByReply ==
    (ClassifyFailed :> 100) @@ (ClassifyUndecodable :> 100) @@ (ClassifiedNothing :> 100)
        @@ (ClassifiedSafe97 :> 97) @@ (PredictedSafe :> 100) @@ (PredictedUnsafe :> 0)
        @@ (ClassifiedSafe150 :> 150)

\* Interaction i carries a non-empty message
HasMessage(i) == i # NoInteraction /\ i.RequestBody \notin NoMessageBodies

\* C17: for a dequeued Interaction with a non-empty message exactly one classification
\* call is issued, and the safety score recorded is, in hundredths: 100 if the call
\* fails, its reply cannot be decoded or holds no classification; else the confidence
\* of the "safe" label if there is one (97 for confidence 0.97); else 100 if the
\* prediction is "safe" and 0 if it is anything else.
C17_OneCallAndScoreFromReply ==
    /\ [](\A k \in 1..Len(store) :
            HasMessage(store[k]) => Cardinality(CallsFor(store[k].id)) = 1)
    /\ []((wpc = "persist" /\ HasMessage(cur)) =>
            /\ Cardinality(CallsFor(cur.id)) = 1
            /\ safetyScore = ScoreByReply[result])
    /\ [][(Len(store') > Len(store) /\ HasMessage(cur)) =>
            store'[Len(store')].SafetyScore = ScoreByReply[result]]_vars

C17_Witness ==
    /\ wpc = "persist"
    /\ cur.RequestBody = BodyJoke
    /\ Cardinality(CallsFor(cur.id)) = 1
    /\ result = ClassifiedSafe97
    /\ safetyScore = 97

\* C18 as claimed: when a 200 response on a chat endpoint carries both token shapes,
\* billed_units 10 + 5 and tokens 7 + 3, the token count is that of billed_units
\* alone, 15.
C18_FirstTokenShapeWins ==
    \A k \in 1..Len(store) :
        (/\ store[k].StatusCode = StatusOK
         /\ Contains(store[k].Path, ChatMarker)
         /\ store[k].ResponseBody = ReplyBoth) => store[k].Tokens = 10 + 5

\* answers from which no token count can be read: no JSON, an array, no meta, a meta
\* that is no object, counts that are no numbers
NoTokenReplies == {ReplyNotJSON, ReplyArray, ReplyNoMeta, ReplyMetaString, ReplyStringCounts}

\* no token count is to be had from Interaction i: its status is not 200, or its path
\* is no chat endpoint, or its response body does not carry the token fields
Tokenless(i) ==
    \/ i.StatusCode # StatusOK
    \/ i.Path = PathEmbed
    \/ i.ResponseBody \in NoTokenReplies

\* C19: the token count is 0 whenever the status is not 200, or the path is no chat
\* endpoint, or the response body cannot be parsed as a JSON object carrying the token
\* fields; the Interaction is processed on and its record is written with count 0.
C19_NoTokensCountsZero ==
    /\ \A k \in 1..Len(store) : Tokenless(store[k]) => store[k].Tokens = 0
    /\ (wpc \in {"safety", "classify", "persist"} /\ Tokenless(cur)) => tokens = 0
    /\ (wpc = "tokens" /\ Tokenless(cur)) => ENABLED ParseTokens

C19_Witness ==
    \E k \in 1..Len(store) :
        /\ store[k].StatusCode = StatusOK
        /\ store[k].Path = PathChat
        /\ store[k].ResponseBody = ReplyNotJSON
        /\ store[k].Tokens = 0
        /\ tokenUsageTotal = 0

\* the token shapes the provider answers with, and what each should count
SingleShapeTokens == (ReplyBilled :> 10 + 5) @@ (ReplyTokens :> 7 + 3)

\* Interaction i is a 200 on a chat endpoint whose body carries exactly one token shape
SingleShape(i) ==
    /\ i.StatusCode = StatusOK
    /\ i.Path = PathChat
    /\ i.ResponseBody \in DOMAIN SingleShapeTokens

\* C20: for a 200 response on a chat endpoint whose body carries exactly one token shape
\* with input_tokens a and output_tokens b, the token count is a + b (15 for
\* billed_units 10 and 5, 10 for tokens 7 and 3): the record carries it, and parsing
\* the tokens makes the token-usage counter grow by exactly that amount.
C20_SingleShapeCountsSum ==
    /\ [](\A k \in 1..Len(store) :
            SingleShape(store[k]) => store[k].Tokens = SingleShapeTokens[store[k].ResponseBody])
    /\ [][(wpc = "tokens" /\ wpc' = "safety" /\ SingleShape(cur)) =>
            /\ tokens' = SingleShapeTokens[cur.ResponseBody]
            /\ tokenUsageTotal' = tokenUsageTotal + SingleShapeTokens[cur.ResponseBody]]_vars

C20_Witness ==
    \E k \in 1..Len(store) :
        /\ SingleShape(store[k])
        /\ store[k].ResponseBody = ReplyBilled
        /\ store[k].Tokens = 15
        /\ tokenUsageTotal = 15

(***************************************************************************)
(* The log as the dashboard gets it                                        *)
(***************************************************************************)
\* the rows the store held when handleGetLogs answered (rows are only ever added)
RowsThen == SubSeq(store, 1, logsReply.rows)

\* the limits of DashboardLimits that are numbers
NumberAsked ==
    [str \in {<<"0">>, <<"1">>, <<"2">>, <<"-", "1">>} |->
        CASE str = <<"0">> -> 0
          [] str = <<"1">> -> 1
          [] str = <<"2">> -> 2
          [] str = <<"-", "1">> -> 0 - 1]

Descending(logs) ==
    \A k \in 1..(Len(logs) - 1) : logs[k].Timestamp >= logs[k + 1].Timestamp

\* logs holds rows of the store, each once, and no row left out is more recent than
\* one of them: with Descending, logs is the head of a descending list of all the rows
MostRecentOf(logs, rows) ==
    /\ Range(logs) \subseteq Range(rows)
    /\ Cardinality(Range(logs)) = Len(logs)
    /\ \A x \in Range(rows) \ Range(logs) : \A y \in Range(logs) : x.Timestamp <= y.Timestamp

\* the limits Store.GetLogs is tried with
StoreLimits == {0 - 1, 0, 1, 2, DefaultLimit, DefaultLimit + 1}

\* C21 as stated: for every limit N, listing with limit=N returns at most N records (none,
\* for an N below 0), in descending order of timestamp, a prefix of the descending list
\* of all the records.
C21_ListingReturnsAtMostLimit ==
    (logsReply.status = StatusOK /\ logsReply.limit \in DOMAIN NumberAsked) =>
        /\ Len(logsReply.logs) <= Max(NumberAsked[logsReply.limit], 0)
        /\ Descending(logsReply.logs)
        /\ MostRecentOf(logsReply.logs, RowsThen)

\* C21, amended: listing with a limit N >= 1, at the endpoint or at the store, returns
\* the min(N, count) most recent records in descending order of timestamp; a negative N
\* is no limit and returns every record, in that order.
C21_PositiveLimitBoundsListing ==
    /\ (logsReply.status = StatusOK /\ logsReply.limit \in {<<"1">>, <<"2">>, <<"-", "1">>}) =>
          /\ Len(logsReply.logs) =
                IF NumberAsked[logsReply.limit] < 0 THEN logsReply.rows
                ELSE Min(NumberAsked[logsReply.limit], logsReply.rows)
          /\ Descending(logsReply.logs)
          /\ MostRecentOf(logsReply.logs, RowsThen)
    /\ \A n \in StoreLimits \ {0} : \A ties \in TieOrders :
          \A logs \in {GetLogs(store, n, ties)} :
             /\ Len(logs) = IF n < 0 THEN Len(store) ELSE Min(n, Len(store))
             /\ Descending(logs)
             /\ MostRecentOf(logs, store)

\* a listing with limit=1 over two rows of different seconds: the later row alone
C21_Witness ==
    /\ logsReply.status = StatusOK
    /\ logsReply.limit = <<"1">>
    /\ logsReply.rows >= 2
    /\ RowsThen[logsReply.rows - 1].Timestamp < RowsThen[logsReply.rows].Timestamp
    /\ logsReply.logs = <<RowsThen[logsReply.rows]>>

\* the limits of DashboardLimits that strconv.Atoi turns into 0: none, 0, a word
UnsetLimits == {<<>>, <<"0">>, <<"a", "l", "l">>}

\* the endpoint, asked without a usable limit, answers with the 50 most recent records
EndpointDefaultsToFifty ==
    (logsReply.status = StatusOK /\ logsReply.limit \in UnsetLimits) =>
        /\ Len(logsReply.logs) = Min(50, logsReply.rows)
        /\ Descending(logsReply.logs)
        /\ MostRecentOf(logsReply.logs, RowsThen)

\* C22 as stated: the limit is 50 whenever it is unspecified or zero: the endpoint with a
\* missing, zero or non-numeric limit and the store's list called with 0 both return the
\* 50 most recent records.
C22_FiftyWhenUnsetOrZero ==
    /\ EndpointDefaultsToFifty
    /\ \A ties \in TieOrders :
          \A logs \in {GetLogs(store, 0, ties)} :
             /\ Len(logs) = Min(50, Len(store))
             /\ Descending(logs)
             /\ MostRecentOf(logs, store)

\* C22, amended: the endpoint with a missing, zero or non-numeric limit returns the 50
\* most recent records; the store's list called with 0 returns no record.
C22_FiftyAtEndpointOnly ==
    /\ EndpointDefaultsToFifty
    /\ \A ties \in TieOrders : GetLogs(store, 0, ties) = <<>>

\* the endpoint, asked without a limit over more than 50 rows, has answered with 50
C22_Witness ==
    /\ logsReply.status = StatusOK
    /\ logsReply.limit = <<>>
    /\ logsReply.rows > 50
    /\ Len(logsReply.logs) = 50

(***************************************************************************)
(* The store write                                                         *)
(***************************************************************************)
\* the store write for r's Interaction has just failed
WriteFails(r) == fate[r] = "processing" /\ fate'[r] = "failed"

\* C23: a failed store write is only logged: the write is not tried again and leaves no
\* row, the Interaction does not go back on the queue, the worker is at its select again
\* and takes the next item, and the step changes nothing of the request path.
C23_WriteFailureOnlyLogged ==
    /\ [][\A r \in Requests :
            /\ WriteFails(r) =>
                  /\ wpc = "persist" /\ wpc' = "select"
                  /\ store' = store
                  /\ auditChan' = auditChan
                  /\ UNCHANGED <<pc, reqVars, ctxDone>>
            /\ fate[r] = "failed" =>
                  /\ fate'[r] = "failed"
                  /\ cur'.id # r
                  /\ r \notin {auditChan'[k].id : k \in 1..Len(auditChan')}
                  /\ \A k \in 1..Len(store') : store'[k].id # r]_vars
    /\ []((wpc = "select" /\ auditChan # <<>>) => ENABLED WorkerReceive)

\* the write of the first event failed and the worker has since written the second
C23_Witness ==
    \E r, q \in Requests :
        /\ fate[r] = "failed"
        /\ fate[q] = "written"
        /\ PosIn(received, r) < PosIn(received, q)

\* C24: single writer: every step that changes the store is the one AuditWorker's write of
\* the event it has in hand, adds that one row, and is over before the worker takes
\* another event; no step of the request path (AuditMiddleware, GovernanceMiddleware, the
\* proxy, handleGetLogs) changes the store.
C24_SingleWriter ==
    [][store' # store =>
          /\ wpc = "persist"
          /\ wpc' = "select"
          /\ cur # NoInteraction
          /\ Len(store') = Len(store) + 1
          /\ SubSeq(store', 1, Len(store)) = store
          /\ store'[Len(store')].id = cur.id
          /\ cur' = NoInteraction
          /\ UNCHANGED <<pc, reqVars, logsReply, auditChan>>]_vars

\* a row has been written while a request was in the pipeline and after the dashboard
\* had been answered
C24_Witness ==
    /\ Len(store) > Len(env.stored)
    /\ logsReply.status = StatusOK
    /\ \E r \in Requests : pc[r] \in {"governance", "proxy", "audit"}

(***************************************************************************)
(* The governance rules                                                    *)
(***************************************************************************)
\* body holds one of the keywords config.yaml ships with, in any letter case
HasShippedKeyword(body) ==
    \E kws \in KeywordConfigs : \E k \in 1..Len(kws) : Contains(ToLower(body), ToLower(kws[k]))

\* C25: when config.yaml is absent or cannot be loaded, the gateway runs with an empty
\* list of forbidden keywords, and then no request is rejected by the keyword rule: every
\* request is handed to the next stage and none is answered with the rejection.
C25_NoConfigNoKeywordRejection ==
    env.config \in {"absent", "malformed"} =>
        /\ forbiddenKeywords = <<>>
        /\ \A r \in Requests :
              /\ ~Rejected(r)
              /\ ~IsRejectionJSON(wire[r].body)
              /\ wire[r].status # StatusForbidden

\* without config.yaml, a POST with a shipped keyword in its body has been forwarded
C25_Witness ==
    /\ env.config = "absent"
    /\ \E r \in Requests :
          /\ request[r].method = "POST"
          /\ HasShippedKeyword(reqBody[r])
          /\ Answered(r)
          /\ forwarded[r] # <<>>

\* GovernanceMiddleware has dealt with request r
PastGovernance(r) == pc[r] \in {"proxy", "audit", "done", "aborted"}

StateChanging == {"POST", "PUT", "PATCH", "DELETE"}

\* the keyword rule and the redactor were applied to r: rejected for a keyword, or else
\* handed on with the redacted body and the redaction flag in its context
Governed(r) ==
    IF HasForbiddenKeyword(reqBody[r])
    THEN ~downstream[r].called /\ rw[r].statusCode = StatusForbidden
    ELSE /\ downstream[r].called
         /\ downstream[r].body = Redactions[reqBody[r]]
         /\ \E flag \in BOOLEAN : downstream[r].ctx = {<<"is_redacted", flag>>}

\* r was handed on as it came: same body, same context
Untouched(r) ==
    /\ downstream[r].called
    /\ downstream[r].body = reqBody[r]
    /\ downstream[r].ctx = {}

Admitted(r) == PastGovernance(r) /\ request[r].method = "POST" /\ downstream[r].called

\* C27: for an admitted request the redaction flag is true exactly when redaction is
\* enabled and the replacements changed the body; the body forwarded is then the changed
\* body, and otherwise (no match, or redaction disabled) it is the body as received.
C27_FlagIffBodyChanged ==
    /\ \A r \in Requests :
          Admitted(r) =>
              \A changed \in {RedactionEnabled /\ Redactions[reqBody[r]] # reqBody[r]} :
                 /\ downstream[r].ctx = {<<"is_redacted", changed>>}
                 /\ downstream[r].body = IF changed THEN Redactions[reqBody[r]] ELSE reqBody[r]
                 /\ pc[r] \in {"audit", "done", "aborted"} =>
                       forwarded[r] = <<downstream[r].body>>
    /\ \A r \in Requests : RedactedBody(FALSE, reqBody[r]) = reqBody[r]

\* a request whose body the redactor changed went out changed, with the flag true
C27_Witness ==
    \E r \in Requests :
        /\ Admitted(r)
        /\ pc[r] = "done"
        /\ downstream[r].ctx = {<<"is_redacted", TRUE>>}
        /\ reqBody[r] = BodyPII
        /\ forwarded[r] = <<Redactions[BodyPII]>>
        /\ forwarded[r] # <<reqBody[r]>>

\* the body GovernanceMiddleware is to hand on: redacted for a POST, as received otherwise
BodyToForward(r) == IF request[r].method = "POST" THEN Redactions[reqBody[r]] ELSE reqBody[r]

\* C28: AuditMiddleware and GovernanceMiddleware put the body back after reading it:
\* GovernanceMiddleware finds the whole body as it arrived, the handler after it finds the
\* whole original or redacted body, reads it once, and nothing is left to read after that.
C28_BodyRestoredForNextStage ==
    \A r \in Requests :
        /\ pc[r] = "governance" => request[r].body = reqBody[r]
        /\ pc[r] = "proxy" => request[r].body = BodyToForward(r)
        /\ (pc[r] \in {"audit", "done", "aborted"} /\ downstream[r].called) =>
              /\ forwarded[r] = <<BodyToForward(r)>>
              /\ request[r].body = <<>>

\* the proxy has read, in one piece, a body that both middlewares had read before it
C28_Witness ==
    \E r \in Requests :
        /\ pc[r] = "done"
        /\ request[r].method = "POST"
        /\ reqBody[r] = BodyJoke
        /\ forwarded[r] = <<BodyJoke>>

(***************************************************************************)
(* What AuditMiddleware records of the response                            *)
(***************************************************************************)
\* the Interactions of the pipeline's requests that are on their way: in the channel, in
\* the worker's hand, in the store
EventsOnRecord ==
    {auditChan[k] : k \in 1..Len(auditChan)}
        \cup (IF cur = NoInteraction THEN {} ELSE {cur})
        \cup {store[k] : k \in {j \in 1..Len(store) : store[j].id \in Requests}}

\* C29: the Interaction's statusCode is the status the handler wrote, or 200 when it wrote
\* none, and its responseBody is all the chunks the handler wrote, in order: status and
\* body are those that went to the client.
C29_StatusAndBodyAsWritten ==
    /\ \A i \in EventsOnRecord :
          /\ i.StatusCode = IF wire[i.id].wroteHeader THEN wire[i.id].status ELSE StatusOK
          /\ i.ResponseBody = wire[i.id].body
    /\ \A r \in Requests :
          (pc[r] # "new" /\ ~wire[r].wroteHeader) =>
              rw[r].statusCode = StatusOK /\ rw[r].body = <<>>

\* a 500 answer is in the store with its status and its whole body
C29_Witness ==
    \E k \in 1..Len(store) :
        /\ store[k].StatusCode = StatusUpstreamError
        /\ store[k].ResponseBody = ReplyBilled
        /\ wire[store[k].id].status = StatusUpstreamError

(***************************************************************************)
(* Telemetry                                                               *)
(***************************************************************************)
\* the value of a counter's child; a child that was never touched is at 0
ValueAt(vec, labels) == IF labels \in DOMAIN vec THEN vec[labels] ELSE 0

\* the labels of the Interaction of request r
RequestLabels(r) == <<request[r].method, request[r].path, rw[r].statusCode>>

DurationLabels(r) == <<request[r].method, request[r].path>>

\* the worker has the Interaction of r in hand and is past its metrics step
PastMetrics(r) == cur.id = r /\ wpc \in {"tokens", "safety", "classify", "persist"}

\* C30 as stated: for every Interaction the worker has dequeued, the request counter of
\* its (method, path, status) went up exactly once and one duration was observed, before
\* the later steps and whatever became of them.
C30_EveryDequeuedCountedOnce ==
    \A r \in Requests :
        /\ ValueAt(httpRequestsTotal, RequestLabels(r)) =
              Cardinality({q \in Requests :
                              /\ RequestLabels(q) = RequestLabels(r)
                              /\ PastMetrics(q) \/ fate[q] \in {"written", "failed", "panicked"}})
        /\ ValueAt(httpRequestDuration, DurationLabels(r)) =
              Cardinality({q \in Requests :
                              /\ DurationLabels(q) = DurationLabels(r)
                              /\ PastMetrics(q) \/ fate[q] \in {"written", "failed", "panicked"}})

\* C30, amended: the metrics step comes first and, unless it panics itself, adds exactly one
\* to the request counter of the Interaction's (method, path, status) and one duration
\* observation; no other step touches the two, so every Interaction that reached a later
\* step, blocked and error-status ones included, is counted once whatever the later steps
\* do, and no Interaction is counted that was not dequeued.
C30_CountedOnceUnlessMetricsPanic ==
    /\ [][(wpc = "metrics" /\ wpc' = "tokens") =>
             /\ httpRequestsTotal' =
                   [l \in DOMAIN httpRequestsTotal \cup {<<cur.Method, cur.Path, cur.StatusCode>>} |->
                       ValueAt(httpRequestsTotal, l)
                           + (IF l = <<cur.Method, cur.Path, cur.StatusCode>> THEN 1 ELSE 0)]
             /\ httpRequestDuration' =
                   [l \in DOMAIN httpRequestDuration \cup {<<cur.Method, cur.Path>>} |->
                       ValueAt(httpRequestDuration, l)
                           + (IF l = <<cur.Method, cur.Path>> THEN 1 ELSE 0)]]_vars
    /\ [][(httpRequestsTotal' # httpRequestsTotal \/ httpRequestDuration' # httpRequestDuration)
             => (wpc = "metrics" /\ wpc' = "tokens")]_vars
    /\ [][wpc' \in {"tokens", "safety", "classify", "persist"} =>
             wpc \in {"metrics", "tokens", "safety", "classify", "persist"}]_vars
    /\ [](\A r \in Requests :
             /\ ValueAt(httpRequestsTotal, RequestLabels(r)) >=
                   Cardinality({q \in Requests :
                                   /\ RequestLabels(q) = RequestLabels(r)
                                   /\ PastMetrics(q) \/ fate[q] \in {"written", "failed"}})
             /\ ValueAt(httpRequestsTotal, RequestLabels(r)) <=
                   Cardinality({q \in Range(received) : RequestLabels(q) = RequestLabels(r)}))

\* a rejected request whose store write failed is in the counter of POST /v1/chat 403
C30_Witness ==
    \E r \in Requests :
        /\ Rejected(r)
        /\ fate[r] = "failed"
        /\ ValueAt(httpRequestsTotal, <<"POST", PathChat, StatusForbidden>>) = 1
        /\ ValueAt(httpRequestDuration, <<"POST", PathChat>>) = 1

(***************************************************************************)
(* C31                                                                     *)
(***************************************************************************)
\* C31: in every reachable state the channel holds between 0 and its capacity events
\* (QueueCap stands for the 100 of make(chan Interaction, 100)), however many requests
\* complete at the same time, and an event is only ever added at the end, one at a time.
C31_QueueWithinCapacity ==
    /\ [](Len(auditChan) \in 0..QueueCap)
    /\ [][Len(auditChan') <= Len(auditChan) + 1]_vars

\* the channel is full while two more requests are about to offer their events
C31_Witness ==
    /\ Len(auditChan) = QueueCap
    /\ Cardinality({r \in Requests : pc[r] = "audit"}) >= 2

(***************************************************************************)
(* C32                                                                     *)
(***************************************************************************)
\* the events the worker has taken and is not done with
InHand == {r \in Requests : fate[r] = "processing"}

\* ch holds what it held before, in the same order, and perhaps more behind it
ExtendedBy(before, ch) ==
    Len(ch) >= Len(before) /\ SubSeq(ch, 1, Len(before)) = before

\* C32: there is one consumer and it works on at most one Interaction at a time: an
\* event is only taken at the select, with none in hand; while the consumer is inside
\* the classification call for one event no other event is dequeued, scored or
\* persisted: every event behind it stays on the channel, in its place, until the call
\* returns.
C32_OneConsumerOneItemAtATime ==
    /\ [](InHand = IF cur = NoInteraction THEN {} ELSE {cur.id})
    /\ [](wpc = "classify" => (cur # NoInteraction /\ ~ENABLED WorkerReceive))
    /\ [][received' # received => (wpc = "select" /\ cur = NoInteraction)]_vars
    /\ [][(wpc = "classify" /\ wpc' = "classify") =>
            /\ received' = received
            /\ store' = store
            /\ cur' = cur
            /\ safetyScore' = safetyScore
            /\ classifyCalls' = classifyCalls
            /\ fate' = fate
            /\ ExtendedBy(auditChan, auditChan')]_vars

\* the consumer waits for the classifier while an event waits on the channel and a
\* further request is about to offer its own
C32_Witness ==
    /\ wpc = "classify"
    /\ auditChan # <<>>
    /\ \E r \in Requests : pc[r] = "audit"

(***************************************************************************)
(* C33                                                                     *)
(***************************************************************************)
\* C33 as claimed: the safety score of every row lies between 0 and 1 (0 and 100
\* hundredths), whatever the classifier replies.
C33_SafetyScoreInUnitRange ==
    \A k \in 1..Len(store) : store[k].SafetyScore \in 0..100

(***************************************************************************)
(* C34                                                                     *)
(***************************************************************************)
\* GovernanceMiddleware turned request r away: it has set its block marker
BlockedByGovernance(r) == HasBlockMarker(header[r])

\* the redactor ran on request r and changed its body
RedactionHappened(r) == <<"is_redacted", TRUE>> \in downstream[r].ctx

\* C34: an Interaction that says blocked is of a request whose body matched a forbidden
\* keyword, and no Interaction says both blocked and redacted; a request that
\* GovernanceMiddleware blocks is a POST whose body matched a keyword, and it is never
\* redacted nor passed on: the redactor does not run on it, next is not called and
\* nothing is forwarded.
C34_BlockedImpliesMatchedAndNeverRedacted ==
    /\ \A i \in Captured :
          /\ i.IsBlocked => (BlockedByGovernance(i.id) /\ HasForbiddenKeyword(i.RequestBody))
          /\ ~(i.IsBlocked /\ i.IsRedacted)
    /\ \A r \in Requests :
          BlockedByGovernance(r) =>
              /\ request[r].method = "POST"
              /\ HasForbiddenKeyword(reqBody[r])
              /\ ~RedactionHappened(r)
              /\ ~downstream[r].called
              /\ forwarded[r] = <<>>

\* the record of a blocked request whose body also holds an e-mail address
C34_Witness ==
    \E k \in 1..Len(store) :
        /\ BlockedByGovernance(store[k].id)
        /\ store[k].RequestBody = BodyKeywordEmail
        /\ RedactedBody(RedactionEnabled, store[k].RequestBody) # store[k].RequestBody
        /\ ~store[k].IsRedacted

(***************************************************************************)
(* C35                                                                     *)
(***************************************************************************)
\* the configured list holds an empty keyword
HasEmptyKeyword == \E k \in 1..Len(forbiddenKeywords) : forbiddenKeywords[k] = <<>>

\* C35: when the configured list holds an empty keyword, every POST request, whatever
\* its body (also an empty one), is turned away by GovernanceMiddleware: it is never
\* passed on nor forwarded, and it is answered with status 403 and the fixed rejection
\* JSON.
C35_EmptyKeywordRejectsEveryPost ==
    HasEmptyKeyword =>
        \A r \in Requests :
            (pc[r] \notin {"new", "governance"} /\ request[r].method = "POST") =>
                /\ pc[r] # "proxy"
                /\ ~downstream[r].called
                /\ forwarded[r] = <<>>
                /\ wire[r].status = StatusForbidden
                /\ IsRejectionJSON(wire[r].body)

\* a harmless prompt, and a prompt with PII only, were turned away
C35_Witness ==
    /\ HasEmptyKeyword
    /\ \E r \in Requests :
          /\ pc[r] = "done"
          /\ request[r].method = "POST"
          /\ reqBody[r] \in {BodyJoke, BodyPII}
          /\ ~KeywordMatch(<<KwInternalDb, KwSecretKey>>, reqBody[r])
          /\ wire[r].status = StatusForbidden
          /\ forwarded[r] = <<>>

(***************************************************************************)
(* C36                                                                     *)
(***************************************************************************)
RECURSIVE SumOf(_, _)
\* the sum of the children of a counter vector over the label tuples in keys
SumOf(vec, keys) ==
    IF keys = {} THEN 0
    ELSE LET l == CHOOSE x \in keys : TRUE
         IN vec[l] + SumOf(vec, keys \ {l})

\* the total of the request counter
RequestsCounted == SumOf(httpRequestsTotal, DOMAIN httpRequestsTotal)

\* the requests that completed AuditMiddleware's capture: they made their offer
CompletedCapture == {r \in Requests : pc[r] = "done"}

\* the worker holds an event it has not counted yet
Uncounted == IF wpc = "metrics" THEN 1 ELSE 0

InFlight == IF cur = NoInteraction THEN 0 ELSE 1

\* C36 as claimed: the requests that completed the capture are as many as the events
\* dropped, queued and dequeued together; there are no more rows than dequeued events;
\* and the dequeued events are as many as the request counter's total, plus at most the
\* one in flight.
C36_EventAccounting ==
    /\ Cardinality(CompletedCapture) =
          Cardinality(dropped) + Len(auditChan) + Len(received)
    /\ Len(store) <= Len(received)
    /\ RequestsCounted <= Len(received)
    /\ Len(received) <= RequestsCounted + InFlight

\* C36, amended: the first two parts as claimed; the dequeued events are as many as the
\* request counter's total, plus the one in hand if it is still before its metrics
\* step, plus the events whose metrics step panicked (there are no more of those than
\* panicked events, and none when no event has panicked).
C36_AccountingUnlessMetricsPanic ==
    /\ Cardinality(CompletedCapture) =
          Cardinality(dropped) + Len(auditChan) + Len(received)
    /\ Len(store) <= Len(received)
    /\ RequestsCounted + Uncounted <= Len(received)
    /\ Len(received) <=
          RequestsCounted + Uncounted + Cardinality({r \in Requests : fate[r] = "panicked"})

\* one event dropped, one queued, one dequeued, counted and stored
C36_Witness ==
    /\ Cardinality(dropped) = 1
    /\ Len(auditChan) = 1
    /\ Len(received) = 1
    /\ RequestsCounted = 1
    /\ Len(store) = 1
    /\ Cardinality(CompletedCapture) = 3

(***************************************************************************)
(* C37                                                                     *)
(***************************************************************************)
\* C37 as claimed: once the worker's context is cancelled the worker eventually stops,
\* also when events are queued and when a classification call is in flight; and once it
\* has stopped, nothing more is written to the store and no metric is updated.
C37_ShutdownStopsWorker ==
    /\ ctxDone ~> (wpc = "stopped")
    /\ [][wpc = "stopped" =>
            /\ store' = store
            /\ httpRequestsTotal' = httpRequestsTotal
            /\ httpRequestDuration' = httpRequestDuration
            /\ tokenUsageTotal' = tokenUsageTotal]_vars

(***************************************************************************)
(* C38                                                                     *)
(***************************************************************************)
\* C38 as claimed: unless the worker's context is cancelled, every event the channel
\* has accepted is eventually dequeued and its processing comes to an end (its row
\* written, or the failure logged), whatever the classifier does.
C38_AcceptedEventuallyProcessed ==
    \A r \in Requests : (r \in Range(accepted)) ~> (ctxDone \/ Finished(r))

(***************************************************************************)
(* C39                                                                     *)
(***************************************************************************)
\* the texts that have left the gateway for the provider: the bodies the reverse proxy
\* forwarded, and the inputs of the worker's classification calls
ForwardedBodies == UNION {Range(forwarded[r]) : r \in Requests}

ClassifiedInputs == {classifyCalls[k].input : k \in 1..Len(classifyCalls)}

\* C39 as claimed: the message of a request that the keyword rule rejected is never
\* sent to the provider: no forwarded body holds it, and no classification call is
\* made for the request or carries its message.
C39_BlockedContentNeverLeaves ==
    \A r \in Requests :
        (Rejected(r) /\ ChatMessage(reqBody[r]) # <<>>) =>
            /\ forwarded[r] = <<>>
            /\ \A sent \in ForwardedBodies : ~Contains(sent, ChatMessage(reqBody[r]))
            /\ CallsFor(r) = {}
            /\ ChatMessage(reqBody[r]) \notin ClassifiedInputs

(***************************************************************************)
(* C40                                                                     *)
(***************************************************************************)
\* C40 as claimed: for a request whose body GovernanceMiddleware redacted, the message
\* of the worker's classification call is that of the redacted body, and it holds none
\* of the PII tokens that were taken out.
C40_ClassifierSeesRedactedMessage ==
    \A k \in 1..Len(classifyCalls) :
        RedactedByGovernance(classifyCalls[k].id) =>
            /\ classifyCalls[k].input = ChatMessage(downstream[classifyCalls[k].id].body)
            /\ \A re \in PiiPatterns :
                  \A tok \in MatchedTexts(re, reqBody[classifyCalls[k].id], 1) :
                      ~Contains(classifyCalls[k].input, tok)

====
